---- MODULE Spec2Model ----
(***************************************************************************)
(* Model of the rakomqtt protocol engine: the status-frame codec           *)
(* (RakoBridge.py), the command dispatcher RakoBridge.post_command with    *)
(* its datagram and stream paths, and the supervisor RakoMQTTBridge.run    *)
(* with its four activities (bridge.py).                                   *)
(*                                                                         *)
(* Python's None is the integer NoneVal in optional integer fields and the *)
(* empty string in optional string fields.  A Python list of bytes is a    *)
(* TLA+ sequence; byte_list[i] of the source is b[i + 1] here.             *)
(***************************************************************************)
EXTENDS Integers, Sequences, FiniteSets, TLC

NoneVal == -1

\* ------------------------------------------------------------------------
\* Bounds of the model
\* ------------------------------------------------------------------------
\* events from outside in one run of the engine: datagrams received, bus
\* messages delivered and expiries of the heartbeat timer, taken together
MaxEvents == 3
\* post_command calls in one dispatcher session
MaxCalls == 4
\* send_command calls and reads of the listener on one stream interface
MaxOps == 3

\* ------------------------------------------------------------------------
\* RakoCommandType (RakoBridge.py 14-48) and RakoFadeRate (73-89)
\* ------------------------------------------------------------------------
OFF == 0
FADE_UP == 1
FADE_DOWN == 2
SC1_LEGACY == 3
SC2_LEGACY == 4
SC3_LEGACY == 5
SC4_LEGACY == 6
IDENT == 8
LEVEL_SET_LEGACY == 12
STORE == 13
STOP == 15
CUSTOM_232 == 45
HOLIDAY == 47
SET_SCENE == 49
FADE == 50
BUTTON_PRESS == 51
SET_LEVEL == 52

RakoCommandType ==
  {OFF, FADE_UP, FADE_DOWN, SC1_LEGACY, SC2_LEGACY, SC3_LEGACY, SC4_LEGACY,
   IDENT, LEVEL_SET_LEGACY, STORE, STOP, CUSTOM_232, HOLIDAY, SET_SCENE,
   FADE, BUTTON_PRESS, SET_LEVEL}

INSTANT == 0
FAST == 1
MEDIUM == 2
SLOW == 3
VERY_SLOW == 4
EXTRA_SLOW == 5

\* A string is the sequence of the codes of its characters.  str.upper on
\* one character: the letters a..z (97..122) become A..Z (65..90)
upper_char_keeping(c) == c

upper_char(c) == IF c \in 97..122 THEN c - 32 ELSE c

upper(name) == [i \in DOMAIN name |-> upper_char(name[i])]

\* the members of RakoFadeRate by name, as cls[...] looks them up
NameINSTANT == <<73, 78, 83, 84, 65, 78, 84>>
NameFAST == <<70, 65, 83, 84>>
NameMEDIUM == <<77, 69, 68, 73, 85, 77>>
NameSLOW == <<83, 76, 79, 87>>
NameVERY_SLOW == <<86, 69, 82, 89, 95, 83, 76, 79, 87>>
NameEXTRA_SLOW == <<69, 88, 84, 82, 65, 95, 83, 76, 79, 87>>

RakoFadeRateMembers ==
  (NameINSTANT :> INSTANT) @@ (NameFAST :> FAST) @@ (NameMEDIUM :> MEDIUM)
  @@ (NameSLOW :> SLOW) @@ (NameVERY_SLOW :> VERY_SLOW)
  @@ (NameEXTRA_SLOW :> EXTRA_SLOW)

\* RakoFadeRate.from_string (lines 82-89): cls[name.upper()], and MEDIUM
\* when that raises KeyError
from_string(name) ==
  LET key == upper(name) IN
  IF key \in DOMAIN RakoFadeRateMembers THEN RakoFadeRateMembers[key]
                                        ELSE MEDIUM

\* ------------------------------------------------------------------------
\* RakoStatusMessage.from_byte_list (RakoBridge.py 103-189)
\* ------------------------------------------------------------------------
\* A decoding result: exc = "none" and the fields of the status message, or
\* the name of the exception the decoder raises.
StatusMessage(room, channel, command, scene, brightness) ==
  [exc |-> "none", room_id |-> room, channel_id |-> channel,
   command |-> command, scene |-> scene, brightness |-> brightness]

Raises(name) ==
  [exc |-> name, room_id |-> NoneVal, channel_id |-> NoneVal,
   command |-> NoneVal, scene |-> NoneVal, brightness |-> NoneVal]

\* the dictionary of _scene_brightness; a missing key is a KeyError
SceneTable_ascending ==
  (0 :> 0) @@ (1 :> 64) @@ (2 :> 128) @@ (3 :> 192) @@ (4 :> 255)

SceneTable_with_five ==
  (0 :> 0) @@ (1 :> 255) @@ (2 :> 192) @@ (3 :> 128) @@ (4 :> 64)
  @@ (5 :> 32)

SceneTable == (0 :> 0) @@ (1 :> 255) @@ (2 :> 192) @@ (3 :> 128) @@ (4 :> 64)

\* byte_list[6:6 + data_length] if data_length > 0 else []
PayloadBytes_from_opcode(b) ==
  LET data_length == b[2] - 5
      last == IF 6 + data_length < Len(b) THEN 6 + data_length ELSE Len(b)
  IN  IF data_length > 0 /\ last >= 6 THEN SubSeq(b, 6, last) ELSE << >>

PayloadBytes(b) ==
  LET data_length == b[2] - 5
      last == IF 6 + data_length < Len(b) THEN 6 + data_length ELSE Len(b)
  IN  IF data_length > 0 /\ last >= 7 THEN SubSeq(b, 7, last) ELSE << >>

from_byte_list(b) ==
  IF Len(b) = 0 THEN Raises("IndexError")
  ELSE IF b[1] # 83 THEN Raises("RakoDeserialisationException")
  ELSE IF Len(b) < 6 THEN Raises("IndexError")
  ELSE
    LET room_id == b[4]
        channel_id == b[5]
        command_byte == b[6]
        data == PayloadBytes(b)
    IN
    IF command_byte = 51 THEN
      LET scene == IF Len(data) > 0 THEN data[Len(data)] ELSE 0 IN
      IF scene \in DOMAIN SceneTable
        THEN StatusMessage(room_id, channel_id, BUTTON_PRESS, scene,
                           SceneTable[scene])
        ELSE Raises("KeyError")
    ELSE IF command_byte \notin RakoCommandType
      THEN Raises("RakoDeserialisationException")
    ELSE IF command_byte \in {LEVEL_SET_LEGACY, SET_LEVEL} THEN
      IF Len(data) >= 2
        THEN StatusMessage(room_id, channel_id, command_byte, NoneVal, data[2])
        ELSE Raises("RakoDeserialisationException")
    ELSE IF command_byte = SET_SCENE THEN
      IF Len(data) < 2 THEN Raises("IndexError")
      ELSE IF data[2] \in DOMAIN SceneTable
        THEN StatusMessage(room_id, channel_id, SET_SCENE, data[2],
                           SceneTable[data[2]])
        ELSE Raises("KeyError")
    ELSE IF command_byte = FADE_UP
      THEN StatusMessage(room_id, channel_id, FADE_UP, NoneVal, 255)
    ELSE IF command_byte = FADE_DOWN
      THEN StatusMessage(room_id, channel_id, FADE_DOWN, NoneVal, 0)
    ELSE IF command_byte = STOP
      THEN StatusMessage(room_id, channel_id, STOP, NoneVal, NoneVal)
    ELSE Raises("RakoDeserialisationException")

\* ------------------------------------------------------------------------
\* RakoBridge.create_topic / create_payload / process_udp_bytes (641-712)
\* ------------------------------------------------------------------------
create_topic(m) ==
  IF m.channel_id = 0
    THEN <<"rako/room", m.room_id, "state">>
    ELSE <<"rako/room", m.room_id, "channel", m.channel_id, "state">>

Payload(state, brightness, scene, action, event) ==
  [state |-> state, brightness |-> brightness, scene |-> scene,
   action |-> action, event |-> event]

create_payload(m) ==
  IF m.command \in {SET_LEVEL, LEVEL_SET_LEGACY} THEN
    Payload(IF m.brightness # NoneVal /\ m.brightness # 0 THEN "ON" ELSE "OFF",
            m.brightness, NoneVal, "", "")
  ELSE IF m.command = SET_SCENE THEN
    Payload(IF m.scene > 0 THEN "ON" ELSE "OFF",
            IF m.scene > 0 THEN 255 ELSE 0, NoneVal, "", "")
  ELSE IF m.command = BUTTON_PRESS THEN
    Payload(IF m.scene > 0 THEN "ON" ELSE "OFF",
            IF m.brightness # NoneVal /\ m.brightness # 0
              THEN m.brightness ELSE 0,
            m.scene, "", "button_press")
  ELSE IF m.command = FADE_UP THEN Payload("ON", 255, NoneVal, "opening", "")
  ELSE IF m.command = FADE_DOWN THEN Payload("ON", 0, NoneVal, "closing", "")
  ELSE IF m.command = STOP THEN Payload("", NoneVal, NoneVal, "stopped", "")
  ELSE Payload("OFF", 0, NoneVal, "", "")

\* The result of process_udp_bytes: a (topic, payload) pair (some = TRUE),
\* None (some = FALSE), or an exception that the function lets through.
NoPayload == Payload("", NoneVal, NoneVal, "", "")

process_udp_bytes_swallowing(b) ==
  LET m == from_byte_list(b) IN
  IF m.exc = "none"
    THEN [exc |-> "none", some |-> TRUE,
          topic |-> create_topic(m), payload |-> create_payload(m)]
    ELSE [exc |-> "none", some |-> TRUE,
          topic |-> <<"rako/room", 0, "state">>,
          payload |-> Payload("OFF", 0, NoneVal, "", "")]

process_udp_bytes(b) ==
  LET m == from_byte_list(b) IN
  IF m.exc \in {"RakoDeserialisationException", "ValueError", "IndexError"}
    THEN [exc |-> "none", some |-> FALSE, topic |-> << >>,
          payload |-> NoPayload]
  ELSE IF m.exc # "none"
    THEN [exc |-> m.exc, some |-> FALSE, topic |-> << >>,
          payload |-> NoPayload]
  ELSE [exc |-> "none", some |-> TRUE,
        topic |-> create_topic(m), payload |-> create_payload(m)]

\* ------------------------------------------------------------------------
\* RakoCommand (RakoBridge.py 192-352)
\* ------------------------------------------------------------------------
RakoCommand(room, channel, scene, brightness, command, fade_rate) ==
  [room_id |-> room, channel_id |-> channel, scene |-> scene,
   brightness |-> brightness, command |-> command, fade_rate |-> fade_rate]

NoCommand == RakoCommand(NoneVal, NoneVal, NoneVal, NoneVal, NoneVal, NoneVal)

RECURSIVE SumSeq(_)
SumSeq(s) == IF s = << >> THEN 0 ELSE Head(s) + SumSeq(Tail(s))

\* _rako_command: brightness to legacy scene number
rako_command_scene(brightness) ==
  IF brightness = 0 THEN 0
  ELSE IF brightness >= 255 THEN 1
  ELSE IF brightness >= 192 THEN 2
  ELSE IF brightness >= 128 THEN 3
  ELSE IF brightness >= 64 THEN 4
  ELSE 0

\* as to_udp_command, with the checksum taken over the whole frame
to_udp_command_sum_all(c) ==
  LET flags == IF c.fade_rate # NoneVal /\ c.fade_rate # 0
                 THEN c.fade_rate ELSE MEDIUM
      command_type == IF c.command # NoneVal THEN c.command
                      ELSE IF c.scene # NoneVal THEN SET_SCENE
                      ELSE SET_LEVEL
      data == IF c.command # NoneVal THEN <<0>>
              ELSE IF c.scene # NoneVal THEN <<flags, c.scene>>
              ELSE <<flags, c.brightness>>
      room_high == (c.room_id \div 256) % 256
      room_low == c.room_id % 256
      command == <<82, 5 + Len(data), room_high, room_low, c.channel_id,
                   command_type>> \o data
      checksum == (256 - (SumSeq(command) % 256)) % 256
  IN  IF c.command = NoneVal /\ c.scene = NoneVal /\ c.brightness = NoneVal
        THEN [exc |-> "TypeError", frame |-> << >>]
        ELSE [exc |-> "none", frame |-> Append(command, checksum)]

\* to_udp_command: the frame, or the TypeError that sum() raises when the
\* data byte is None (a command with no command type, scene or brightness).
\* "self.fade_rate.value if self.fade_rate else MEDIUM": an IntEnum member
\* of value 0 is falsy.
to_udp_command(c) ==
  LET flags == IF c.fade_rate # NoneVal /\ c.fade_rate # 0
                 THEN c.fade_rate ELSE MEDIUM
      command_type == IF c.command # NoneVal THEN c.command
                      ELSE IF c.scene # NoneVal THEN SET_SCENE
                      ELSE SET_LEVEL
      data == IF c.command # NoneVal THEN <<0>>
              ELSE IF c.scene # NoneVal THEN <<flags, c.scene>>
              ELSE <<flags, c.brightness>>
      room_high == (c.room_id \div 256) % 256
      room_low == c.room_id % 256
      command == <<82, 5 + Len(data), room_high, room_low, c.channel_id,
                   command_type>> \o data
      checksum == (256 - (SumSeq(Tail(command)) % 256)) % 256
  IN  IF c.command = NoneVal /\ c.scene = NoneVal /\ c.brightness = NoneVal
        THEN [exc |-> "TypeError", frame |-> << >>]
        ELSE [exc |-> "none", frame |-> Append(command, checksum)]

\* ------------------------------------------------------------------------
\* Bus messages, MqttPayloadSchema (model.py 6-36), RakoCommand.from_mqtt
\* (RakoBridge.py 216-317)
\* ------------------------------------------------------------------------
\* A payload text is "object" (a JSON object with the fields given; an
\* absent field is "" or NoneVal), "string" (a JSON string such as "STOP" in
\* quotes) or "text" (not JSON, such as STOP without quotes).
BusPayload(form, text, state, brightness, transition, command) ==
  [form |-> form, text |-> text, state |-> state, brightness |-> brightness,
   transition |-> transition, command |-> command]

\* topic kinds: rako/room/R/set ("room"), rako/room/R/channel/C/set
\* ("channel"), rako/room/R/channel/C/command ("command"), anything else
BusMessage(kind, room, channel, payload) ==
  [kind |-> kind, room |-> room, channel |-> channel, payload |-> payload]

\* mqtt_payload_schema.loads: json.loads, field validation, post_load.
\* ok = FALSE stands for the JSONDecodeError or ValidationError raised.
schema_loads_dark(p) ==
  IF p.form # "object" THEN [ok |-> FALSE, item |-> p]
  ELSE IF \/ p.state \notin {"", "ON", "OFF"}
          \/ (p.brightness # NoneVal /\ p.brightness \notin 0..255)
          \/ (p.transition # NoneVal /\ p.transition < 0)
          \/ p.command \notin {"", "OPEN", "CLOSE", "STOP"}
    THEN [ok |-> FALSE, item |-> p]
  ELSE IF p.command # "" THEN [ok |-> TRUE, item |-> p]
  ELSE IF p.state # "" THEN
    [ok |-> TRUE,
     item |-> IF p.brightness = NoneVal
                THEN [p EXCEPT !.brightness = 0]
                ELSE p]
  ELSE IF p.brightness # NoneVal THEN
    [ok |-> TRUE,
     item |-> [p EXCEPT !.state = IF p.brightness > 0 THEN "ON" ELSE "OFF"]]
  ELSE [ok |-> TRUE, item |-> [p EXCEPT !.state = "OFF", !.brightness = 0]]

schema_loads(p) ==
  IF p.form # "object" THEN [ok |-> FALSE, item |-> p]
  ELSE IF \/ p.state \notin {"", "ON", "OFF"}
          \/ (p.brightness # NoneVal /\ p.brightness \notin 0..255)
          \/ (p.transition # NoneVal /\ p.transition < 0)
          \/ p.command \notin {"", "OPEN", "CLOSE", "STOP"}
    THEN [ok |-> FALSE, item |-> p]
  ELSE IF p.command # "" THEN [ok |-> TRUE, item |-> p]
  ELSE IF p.state # "" THEN
    [ok |-> TRUE,
     item |-> IF p.brightness = NoneVal
                THEN [p EXCEPT !.brightness =
                                 IF p.state = "ON" THEN 255 ELSE 0]
                ELSE p]
  ELSE IF p.brightness # NoneVal THEN
    [ok |-> TRUE,
     item |-> [p EXCEPT !.state = IF p.brightness > 0 THEN "ON" ELSE "OFF"]]
  ELSE [ok |-> TRUE, item |-> [p EXCEPT !.state = "OFF", !.brightness = 0]]

transition_fade_rate(transition) ==
  IF transition = NoneVal THEN NoneVal
  ELSE IF transition = 0 THEN INSTANT
  ELSE IF transition <= 2 THEN FAST
  ELSE IF transition <= 4 THEN MEDIUM
  ELSE IF transition <= 8 THEN SLOW
  ELSE IF transition <= 16 THEN VERY_SLOW
  ELSE EXTRA_SLOW

\* payload_str.strip().strip('"\'').upper() is one of the cover commands
\* only for the bare or quoted word, whose text is kept in p.text
cover_command(p) ==
  IF p.form \in {"text", "string"} /\ p.text = "OPEN" THEN FADE_UP
  ELSE IF p.form \in {"text", "string"} /\ p.text = "CLOSE" THEN FADE_DOWN
  ELSE IF p.form \in {"text", "string"} /\ p.text = "STOP" THEN STOP
  ELSE NoneVal

\* from_mqtt: the command, or NoCommand for the None it returns (also when
\* an exception is caught at line 315)
from_mqtt(msg) ==
  LET loaded == schema_loads(msg.payload)
      payload == loaded.item
      fade_rate == transition_fade_rate(payload.transition)
  IN
  IF ~loaded.ok THEN NoCommand
  ELSE IF msg.kind = "command" THEN
    IF cover_command(msg.payload) # NoneVal
      THEN RakoCommand(msg.room, msg.channel, NoneVal, NoneVal,
                       cover_command(msg.payload), fade_rate)
      ELSE NoCommand
  ELSE IF msg.kind = "room" THEN
    IF payload.state # ""
      THEN RakoCommand(msg.room, 0, IF payload.state = "ON" THEN 1 ELSE 0,
                       NoneVal, NoneVal, NoneVal)
    ELSE IF payload.brightness # NoneVal
      THEN RakoCommand(msg.room, 0, rako_command_scene(payload.brightness),
                       NoneVal, NoneVal, NoneVal)
    ELSE NoCommand
  ELSE IF msg.kind = "channel" THEN
    IF payload.state # "" THEN
      RakoCommand(msg.room, msg.channel, NoneVal,
                  IF payload.state = "ON"
                    THEN (IF payload.brightness # NoneVal
                            THEN payload.brightness ELSE 255)
                    ELSE 0,
                  NoneVal, NoneVal)
    ELSE IF payload.brightness # NoneVal THEN
      RakoCommand(msg.room, msg.channel, NoneVal, payload.brightness,
                  NoneVal, NoneVal)
    ELSE NoCommand
  ELSE NoCommand

\* ------------------------------------------------------------------------
\* State
\* ------------------------------------------------------------------------
VARIABLES
  runPc,          \* position of RakoMQTTBridge.run / run_bridge
  runErr,         \* run is ending with an exception
  pc,             \* position of each of the four activities
  cancelReq,      \* task.cancel() was called on the activity
  sock,           \* the ingest datagram socket of setup_udp_socket
  is_connected,   \* AsyncioMQTTClient.is_connected
  udp_queue,      \* RakoMQTTBridge.udp_queue
  nRecv,          \* datagrams received so far
  lastDecode,     \* how decoding the datagram received last ended
  published,      \* status items published to the bus, in order
  liveness,       \* publish attempts on rako/bridge/status, in order
  message_queue,  \* AsyncioMQTTClient._message_queue
  nMsgs,          \* bus messages delivered so far
  beats,          \* "online" publishes attempted so far
  runLog,         \* what the supervisor has done, in order
  sent,           \* frames and lines handed to a transport, in order
  use_telnet,     \* RakoBridge._use_telnet
  telnet,         \* RakoBridge._telnet and its _connected flag
  dpc,            \* position of post_command
  attempt,        \* loop variable of post_command
  cur,            \* the command post_command was called with
  res,            \* how the last post_command call ended
  udpLog,         \* datagram attempts of the current call, in order
  tnLog,          \* stream attempts of the current call, in order
  calls,          \* post_command calls made so far
  lastDispatch,   \* how handling the bus message taken last ended
  rako_socket,    \* RakoBridge._socket, the dispatcher's datagram socket
  links,          \* stream connections opened so far, and those that failed
  rako_command,   \* codec: the command given to to_udp_command
  byte_list,      \* codec: the frame encoded or given to from_byte_list
  status,         \* codec: what from_byte_list made of byte_list
  cpc,            \* codec: position of the encode / decode run
  lock,           \* RakoTelnetInterface._lock: the task that holds it
  spc,            \* position of each task that calls send_command
  lpc,            \* position of the task that iterates monitor_responses
  nOps,           \* send_command calls and listener reads started so far
  mqtt_message,   \* translation: the bus message given to from_mqtt
  host,           \* RakoBridge.host: the constructor's argument, then the field
  fade_name,      \* the constructor's default_fade_rate argument
  default_fade_rate, \* RakoBridge.default_fade_rate
  probes,         \* discovery: the probes broadcast and what each one got
  kpc,            \* position of RakoBridge.__init__
  loop_thread,    \* the task whose blocking call holds the event loop's thread
  processed       \* codec: what process_udp_bytes returned for byte_list

bridgeVars == <<runPc, runErr, pc, cancelReq, sock, is_connected, udp_queue,
                nRecv, lastDecode, published, liveness, message_queue, nMsgs,
                beats, runLog>>
dispatchVars == <<use_telnet, telnet, dpc, attempt, cur, res, udpLog, tnLog,
                  calls>>
codecVars == <<rako_command, byte_list, status, cpc>>
streamVars == <<lock, spc, lpc, nOps>>
auxVars == <<mqtt_message, host, fade_name, default_fade_rate, probes, kpc,
             loop_thread, processed>>
moreVars == <<lastDispatch, rako_socket, links, rako_command, byte_list,
              status, cpc, lock, spc, lpc, nOps, mqtt_message, host,
              fade_name, default_fade_rate, probes, kpc, loop_thread,
              processed>>
vars == <<runPc, runErr, pc, cancelReq, sock, is_connected, udp_queue,
          nRecv, lastDecode, published, liveness, message_queue, nMsgs,
          beats, runLog, sent, use_telnet, telnet, dpc, attempt, cur, res,
          udpLog, tnLog, calls, lastDispatch, rako_socket, links,
          rako_command, byte_list, status, cpc, lock, spc, lpc, nOps,
          mqtt_message, host, fade_name, default_fade_rate, probes, kpc,
          loop_thread, processed>>

Tasks == {"watch_rako", "process_mqtt", "publish_status",
          "maintain_availability"}

Done(p) == p \in {"failed", "cancelled", "returned"}

\* ------------------------------------------------------------------------
\* Inputs
\* ------------------------------------------------------------------------
\* Datagrams the ingest socket may receive: the set-level frame of the
\* specification, a button press, and one frame for each way of failing.
FrameSetLevel == <<83, 11, 0, 4, 2, 52, 2, 255>>
FrameButton == <<83, 6, 0, 4, 0, 51, 3>>
FrameSceneOutside == <<83, 6, 0, 4, 1, 51, 9>>
FrameWrongMarker == <<82, 7, 0, 4, 2, 52, 2, 255>>
FrameUnknownOpcode == <<83, 5, 0, 4, 2, 7>>
FrameUnhandledOpcode == <<83, 5, 0, 4, 2, 0>>
FrameShortPayload == <<83, 6, 0, 4, 2, 12, 1>>
FrameTruncated == <<83, 7>>
FrameEmpty == << >>

Frames == {FrameSetLevel, FrameButton, FrameSceneOutside, FrameWrongMarker,
           FrameUnknownOpcode, FrameUnhandledOpcode, FrameShortPayload,
           FrameTruncated, FrameEmpty}

\* Bus messages: the two examples of the specification and an empty object
MsgSetOn == BusMessage("channel", 4, 2,
                       BusPayload("object", "", "ON", 128, NoneVal, ""))
MsgStop == BusMessage("command", 7, 1,
                      BusPayload("string", "STOP", "", NoneVal, NoneVal, ""))
MsgRoomOff == BusMessage("room", 5, 0,
                         BusPayload("object", "", "OFF", NoneVal, NoneVal, ""))

Messages == {MsgSetOn, MsgStop, MsgRoomOff}

\* Commands a caller of post_command can pass: RakoCommand's optional fields
\* all default to None (create_command(room_id, channel_id) builds such a
\* command).
CmdLevel == RakoCommand(4, 2, NoneVal, 128, NoneVal, NoneVal)
CmdScene == RakoCommand(5, 0, 1, NoneVal, NoneVal, NoneVal)
CmdStop == RakoCommand(7, 1, NoneVal, NoneVal, STOP, NoneVal)
CmdBare == RakoCommand(4, 2, NoneVal, NoneVal, NoneVal, NoneVal)

Commands == {CmdLevel, CmdScene, CmdStop, CmdBare}

\* What can happen to one datagram send: the acknowledgement arrives,
\* another reply arrives, sendto raises, or recv times out
UdpOutcomes == {"ack", "other", "send_error", "timeout"}

\* ------------------------------------------------------------------------
\* Initial state: the bridge object constructed, run not yet started
\* ------------------------------------------------------------------------
\* conn names the connection the link holds (0: none was opened)
NoTelnet == [exists |-> FALSE, connected |-> FALSE, conn |-> 0]

\* the tasks that call send_command on one shared stream interface
Senders == {"d1", "d2"}

\* the result of a decoding that has not run
NoStatus == Raises("not_run")

InitDispatcher ==
  /\ rako_socket = "open"
  /\ links = [opened |-> 0, failed |-> {}]
  /\ use_telnet = FALSE
  /\ telnet = NoTelnet
  /\ dpc = "idle"
  /\ attempt = 0
  /\ cur = NoCommand
  /\ res = "none"
  /\ udpLog = << >>
  /\ tnLog = << >>
  /\ calls = 0
  /\ sent = << >>

InitBridge ==
  /\ runPc = "connect"
  /\ runErr = FALSE
  /\ pc = [t \in Tasks |-> "absent"]
  /\ cancelReq = [t \in Tasks |-> FALSE]
  /\ sock = "none"
  /\ is_connected = FALSE
  /\ udp_queue = << >>
  /\ nRecv = 0
  /\ lastDecode = "none"
  /\ published = << >>
  /\ liveness = << >>
  /\ message_queue = << >>
  /\ nMsgs = 0
  /\ beats = 0
  /\ runLog = << >>
  /\ lastDispatch = "none"

\* no encode / decode run and no task on the stream interface
CodecIdle ==
  /\ rako_command = NoCommand
  /\ byte_list = << >>
  /\ status = NoStatus
  /\ cpc = "off"

\* a task's position on the stream interface, and the connection whose
\* writer or reader it is using there (0: none)
At(p, conn) == [at |-> p, conn |-> conn]

StreamIdle ==
  /\ lock = "none"
  /\ spc = [s \in Senders |-> At("off", 0)]
  /\ lpc = At("off", 0)
  /\ nOps = 0

\* RakoBridge(host=rako_bridge_host, default_fade_rate="medium") has been
\* constructed (bridge.py 150-153): no discovery ran, no message translated
NoHost == ""
NoMessage == BusMessage("none", NoneVal, NoneVal,
                        BusPayload("text", "", "", NoneVal, NoneVal, ""))
ConfiguredHost == "192.168.1.20"

\* process_udp_bytes has not been called
NoProcessed == [exc |-> "not_run", some |-> FALSE, topic |-> << >>,
                payload |-> NoPayload]

AuxIdle ==
  /\ mqtt_message = NoMessage
  /\ host = ConfiguredHost
  /\ fade_name = <<109, 101, 100, 105, 117, 109>>
  /\ default_fade_rate = MEDIUM
  /\ probes = << >>
  /\ kpc = "constructed"
  /\ loop_thread = "free"
  /\ processed = NoProcessed

Init == InitBridge /\ InitDispatcher /\ CodecIdle /\ StreamIdle /\ AuxIdle

\* ------------------------------------------------------------------------
\* The bus client (bridge.py 103-118) and the liveness topic
\* ------------------------------------------------------------------------
\* One publish attempt on rako/bridge/status.  ok = FALSE stands for the
\* exception AsyncioMQTTClient.publish raises when paho reports an error.
AvailabilityPublish_default_qos(payload, by, ok) ==
  [payload |-> payload, qos |-> 0, retain |-> FALSE, by |-> by, ok |-> ok]

AvailabilityPublish(payload, by, ok) ==
  [payload |-> payload, qos |-> 1, retain |-> TRUE, by |-> by, ok |-> ok]

\* asyncio.Queue.put on the unbounded udp_queue (bridge.py 211)
QueuePut_front(q, item) == <<item>> \o q

QueuePut(q, item) == Append(q, item)

\* ------------------------------------------------------------------------
\* RakoMQTTBridge.run (bridge.py 360-415) and run_bridge (417-444)
\* ------------------------------------------------------------------------
\* The activities run only while the supervisor is suspended in an await:
\* between two awaits a coroutine is not interleaved with the other tasks.
SupervisorSuspended == runPc \in {"wait_first", "grace_wait", "finished"}

\* lines 369-370: connect and wait_for_connection
Connect ==
  /\ runPc = "connect"
  /\ \E ok \in BOOLEAN :
       /\ is_connected' = ok
       /\ runErr' = ~ok
       /\ runPc' = IF ok THEN "setup_udp_socket" ELSE "cleanup"
  /\ UNCHANGED <<pc, cancelReq, sock, udp_queue, nRecv, lastDecode, published,
                 liveness, message_queue, nMsgs, beats, runLog, sent>>
  /\ UNCHANGED dispatchVars
  /\ UNCHANGED moreVars

\* line 371 with 181-191: bind raises before the try of the context manager
SetupUdpSocket ==
  /\ runPc = "setup_udp_socket"
  /\ \E ok \in BOOLEAN :
       /\ sock' = IF ok THEN "open" ELSE "unbound"
       /\ runErr' = ~ok
       /\ runPc' = IF ok THEN "discovery" ELSE "cleanup"
  /\ UNCHANGED <<pc, cancelReq, is_connected, udp_queue, nRecv, lastDecode,
                 published, liveness, message_queue, nMsgs, beats, runLog,
                 sent>>
  /\ UNCHANGED dispatchVars
  /\ UNCHANGED moreVars

\* lines 374-389: discovery, then the four tasks are created and run waits
\* for the first to complete; a discovery failure leaves the exit stack
\* (closing the socket) with no task created
StartActivities ==
  /\ runPc = "discovery"
  /\ \E ok \in BOOLEAN :
       IF ok
         THEN /\ pc' = [t \in Tasks |->
                          IF t = "watch_rako" THEN "recv"
                          ELSE IF t = "publish_status" THEN "get"
                          ELSE "start"]
              /\ runPc' = "wait_first"
              /\ runLog' = Append(runLog, "tasks_created")
              /\ UNCHANGED <<sock, runErr>>
         ELSE /\ sock' = "closed"
              /\ runErr' = TRUE
              /\ runPc' = "cleanup"
              /\ runLog' = Append(runLog, "socket_closed")
              /\ UNCHANGED pc
  /\ UNCHANGED <<cancelReq, is_connected, udp_queue, nRecv, lastDecode,
                 published, liveness, message_queue, nMsgs, beats, sent>>
  /\ UNCHANGED dispatchVars
  /\ UNCHANGED moreVars

\* lines 386-394 and the exit of "async with": asyncio.wait returns when a
\* task is done, the exception of a failed task is raised, the socket closes
FirstCompleted ==
  /\ runPc = "wait_first"
  /\ \E t \in Tasks : Done(pc[t])
  /\ runErr' = (\E t \in Tasks : pc[t] = "failed")
  /\ sock' = "closed"
  /\ runPc' = "cleanup"
  /\ runLog' = runLog \o <<"first_completed", "socket_closed">>
  /\ UNCHANGED <<pc, cancelReq, is_connected, udp_queue, nRecv, lastDecode,
                 published, liveness, message_queue, nMsgs, beats, sent>>
  /\ UNCHANGED dispatchVars
  /\ UNCHANGED moreVars

\* lines 402-405: task.cancel() for every task that is not done
CancelPending_none(pcs, reqs) == reqs

CancelPending(pcs, reqs) ==
  [t \in Tasks |-> reqs[t] \/ (pcs[t] # "absent" /\ ~Done(pcs[t]))]

\* lines 399-407: the finally block up to its await
Cleanup ==
  /\ runPc = "cleanup"
  /\ cancelReq' = CancelPending(pc, cancelReq)
  /\ IF \E t \in Tasks : pc[t] # "absent"
       THEN /\ runPc' = "grace_wait"
            /\ runLog' = Append(runLog, "cancelled")
       ELSE /\ runPc' = "shutdown"
            /\ UNCHANGED runLog
  /\ UNCHANGED <<runErr, pc, sock, is_connected, udp_queue, nRecv, lastDecode,
                 published, liveness, message_queue, nMsgs, beats, sent>>
  /\ UNCHANGED dispatchVars
  /\ UNCHANGED moreVars

\* line 410: asyncio.wait(tasks, timeout=5) returns when every task is done
GraceWaitDone ==
  /\ runPc = "grace_wait"
  /\ \A t \in Tasks : Done(pc[t])
  /\ runPc' = "shutdown"
  /\ runLog' = Append(runLog, "waited")
  /\ UNCHANGED <<runErr, pc, cancelReq, sock, is_connected, udp_queue, nRecv,
                 lastDecode, published, liveness, message_queue, nMsgs, beats,
                 sent>>
  /\ UNCHANGED dispatchVars
  /\ UNCHANGED moreVars

\* line 410: ... or when the 5 seconds are over
GraceWaitTimeout ==
  /\ runPc = "grace_wait"
  /\ \E t \in Tasks : ~Done(pc[t])
  /\ runPc' = "shutdown"
  /\ runLog' = Append(runLog, "waited")
  /\ UNCHANGED <<runErr, pc, cancelReq, sock, is_connected, udp_queue, nRecv,
                 lastDecode, published, liveness, message_queue, nMsgs, beats,
                 sent>>
  /\ UNCHANGED dispatchVars
  /\ UNCHANGED moreVars

\* shutdown, lines 323-358: the offline marker (a failure is logged), no
\* _socket attribute on the bridge object, the bus client disconnected, the
\* stream link closed if there is one
Shutdown ==
  /\ runPc = "shutdown"
  /\ \E ok \in BOOLEAN :
       liveness' = Append(liveness,
                          AvailabilityPublish("offline", "shutdown", ok))
  /\ is_connected' = FALSE
  /\ telnet' = [telnet EXCEPT !.connected = FALSE]
  /\ runPc' = "run_bridge_finally"
  /\ runLog' = runLog \o <<"offline", "mqtt_disconnected">>
                      \o (IF telnet.exists THEN <<"telnet_closed">>
                                           ELSE << >>)
  /\ UNCHANGED <<runErr, pc, cancelReq, sock, udp_queue, nRecv, lastDecode,
                 published, message_queue, nMsgs, beats, sent>>
  /\ UNCHANGED <<use_telnet, dpc, attempt, cur, res, udpLog, tnLog, calls>>
  /\ UNCHANGED moreVars

\* run_bridge, lines 434-444: the offline marker once more, then disconnect
RunBridgeFinally ==
  /\ runPc = "run_bridge_finally"
  /\ \E ok \in BOOLEAN :
       liveness' = Append(liveness,
                          AvailabilityPublish("offline", "run_bridge", ok))
  /\ runPc' = "finished"
  /\ runLog' = Append(runLog, "finished")
  /\ UNCHANGED <<runErr, pc, cancelReq, sock, is_connected, udp_queue, nRecv,
                 lastDecode, published, message_queue, nMsgs, beats, sent>>
  /\ UNCHANGED dispatchVars
  /\ UNCHANGED moreVars

\* What activity t does with the CancelledError raised at the await it is
\* suspended in.  The except clauses of the four loops (lines 212, 263, 293,
\* 310) are "except Exception", which CancelledError is not; the bare except
\* of line 319 encloses a publish, which never suspends.
on_cancel_caught(t, at) ==
  IF t = "watch_rako" THEN "sleep_error"
  ELSE IF t = "publish_status" THEN "sleep_error"
  ELSE "cancelled"

on_cancel(t, at) == "cancelled"

\* A cancelled task gets CancelledError at the await it is suspended in
DeliverCancel(t) ==
  /\ SupervisorSuspended
  /\ cancelReq[t]
  /\ pc[t] # "absent"
  /\ ~Done(pc[t])
  /\ pc' = [pc EXCEPT ![t] = on_cancel(t, pc[t])]
  /\ UNCHANGED <<runPc, runErr, cancelReq, sock, is_connected, udp_queue,
                 nRecv, lastDecode, published, liveness, message_queue, nMsgs,
                 beats, runLog, sent>>
  /\ UNCHANGED dispatchVars
  /\ UNCHANGED moreVars

\* the environment may still deliver an event
MoreEvents == nRecv + nMsgs + beats < MaxEvents

\* a step of activity t can be taken: the loop resumes a task only from
\* its own thread, which a blocking call made by a task (socket.recv in
\* send_udp_command, RakoBridge.py 548) holds until the call returns
Runs(t, at) ==
  /\ SupervisorSuspended
  /\ loop_thread = "free"
  /\ ~cancelReq[t]
  /\ pc[t] \in at

\* ------------------------------------------------------------------------
\* Ingest: watch_rako (bridge.py 193-214)
\* ------------------------------------------------------------------------
StatusItem(seq, frame, r) ==
  [seq |-> seq, frame |-> frame, topic |-> r.topic, payload |-> r.payload]

\* lines 212-214: "except Exception" catches what the body raises, logs it
\* and sleeps a second; the loop goes on
watch_rako_except_decoder_only(exc) ==
  IF exc \in {"RakoDeserialisationException", "ValueError", "IndexError"}
    THEN "sleep_error" ELSE "failed"

watch_rako_except(exc) == "sleep_error"

\* lines 200-214: one datagram is received and handled up to the next await
WatchReceive ==
  /\ Runs("watch_rako", {"recv"})
  /\ MoreEvents
  /\ \E frame \in Frames :
       LET r == process_udp_bytes(frame) IN
       /\ nRecv' = nRecv + 1
       /\ lastDecode' = IF frame = << >> THEN "empty"
                                         ELSE from_byte_list(frame).exc
       /\ IF frame = << >>
            THEN /\ pc' = [pc EXCEPT !["watch_rako"] = "sleep_empty"]
                 /\ UNCHANGED udp_queue
          ELSE IF r.exc # "none"
            THEN /\ pc' = [pc EXCEPT !["watch_rako"] =
                                      watch_rako_except(r.exc)]
                 /\ UNCHANGED udp_queue
          ELSE IF r.some
            THEN /\ udp_queue' =
                      QueuePut(udp_queue, StatusItem(nRecv + 1, frame, r))
                 /\ UNCHANGED pc
          ELSE UNCHANGED <<pc, udp_queue>>
  /\ UNCHANGED <<runPc, runErr, cancelReq, sock, is_connected, published,
                 liveness, message_queue, nMsgs, beats, runLog, sent>>
  /\ UNCHANGED dispatchVars
  /\ UNCHANGED moreVars

\* lines 212-214: sock_recv raises (for instance on the closed socket)
WatchSocketError ==
  /\ Runs("watch_rako", {"recv"})
  /\ pc' = [pc EXCEPT !["watch_rako"] = "sleep_error"]
  /\ UNCHANGED <<runPc, runErr, cancelReq, sock, is_connected, udp_queue,
                 nRecv, lastDecode, published, liveness, message_queue, nMsgs,
                 beats, runLog, sent>>
  /\ UNCHANGED dispatchVars
  /\ UNCHANGED moreVars

\* lines 202 and 214: the sleep is over, back to sock_recv
WatchWake ==
  /\ Runs("watch_rako", {"sleep_empty", "sleep_error"})
  /\ pc' = [pc EXCEPT !["watch_rako"] = "recv"]
  /\ UNCHANGED <<runPc, runErr, cancelReq, sock, is_connected, udp_queue,
                 nRecv, lastDecode, published, liveness, message_queue, nMsgs,
                 beats, runLog, sent>>
  /\ UNCHANGED dispatchVars
  /\ UNCHANGED moreVars

\* ------------------------------------------------------------------------
\* Publication: publish_status_updates (bridge.py 267-295)
\* ------------------------------------------------------------------------
\* lines 272-295: the head of the queue is taken and published; when the
\* publish raises the item is gone and the loop sleeps
PublishStatus ==
  /\ Runs("publish_status", {"get"})
  /\ udp_queue # << >>
  /\ udp_queue' = Tail(udp_queue)
  /\ \E ok \in BOOLEAN :
       IF ok
         THEN /\ published' = Append(published, Head(udp_queue))
              /\ UNCHANGED pc
         ELSE /\ pc' = [pc EXCEPT !["publish_status"] = "sleep_error"]
              /\ UNCHANGED published
  /\ UNCHANGED <<runPc, runErr, cancelReq, sock, is_connected, nRecv,
                 lastDecode, liveness, message_queue, nMsgs, beats, runLog,
                 sent>>
  /\ UNCHANGED dispatchVars
  /\ UNCHANGED moreVars

PublishWake ==
  /\ Runs("publish_status", {"sleep_error"})
  /\ pc' = [pc EXCEPT !["publish_status"] = "get"]
  /\ UNCHANGED <<runPc, runErr, cancelReq, sock, is_connected, udp_queue,
                 nRecv, lastDecode, published, liveness, message_queue, nMsgs,
                 beats, runLog, sent>>
  /\ UNCHANGED dispatchVars
  /\ UNCHANGED moreVars

\* ------------------------------------------------------------------------
\* Heartbeat: maintain_availability (bridge.py 297-321)
\* ------------------------------------------------------------------------
\* One turn of the loop: the online publish; when it raises, the offline
\* publish (its failure ignored) and the re-raise that ends the task
maintain_availability_retrying(onlineOk, offlineOk) ==
  [entries |-> <<AvailabilityPublish("online", "heartbeat", onlineOk)>>,
   pc |-> "sleep60"]

maintain_availability(onlineOk, offlineOk) ==
  IF onlineOk
    THEN [entries |-> <<AvailabilityPublish("online", "heartbeat", TRUE)>>,
          pc |-> "sleep60"]
    ELSE [entries |-> <<AvailabilityPublish("online", "heartbeat", FALSE),
                        AvailabilityPublish("offline", "heartbeat",
                                            offlineOk)>>,
          pc |-> "failed"]

Heartbeat ==
  /\ Runs("maintain_availability", {"start", "sleep60"})
  /\ MoreEvents
  /\ beats' = beats + 1
  /\ \E onlineOk \in BOOLEAN, offlineOk \in BOOLEAN :
       LET r == maintain_availability(onlineOk, offlineOk) IN
       /\ onlineOk => offlineOk    \* no offline publish to fail otherwise
       /\ liveness' = liveness \o r.entries
       /\ pc' = [pc EXCEPT !["maintain_availability"] = r.pc]
  /\ UNCHANGED <<runPc, runErr, cancelReq, sock, is_connected, udp_queue,
                 nRecv, lastDecode, published, message_queue, nMsgs, runLog,
                 sent>>
  /\ UNCHANGED dispatchVars
  /\ UNCHANGED moreVars

\* ------------------------------------------------------------------------
\* The datagram path: send_udp_command (RakoBridge.py 539-557)
\* ------------------------------------------------------------------------
\* bytes(command_bytes) raises ValueError for a value outside 0..255
IsBytes(frame) == \A i \in DOMAIN frame : frame[i] \in 0..255

\* raised: an exception leaves the function; handed: sendto was given the
\* frame.  The except clause at line 556 catches every exception.
send_udp_command_strict(frame, outcome) ==
  [raised |-> outcome # "ack",
   handed |-> IsBytes(frame) /\ outcome # "send_error"]

send_udp_command(frame, outcome) ==
  [raised |-> FALSE,
   handed |-> IsBytes(frame) /\ outcome # "send_error"]

\* post_command lines 563-572: the try block of the datagram path.
\* raised: the except clause at line 570 is entered.
PostDatagram(c, outcome) ==
  LET e == to_udp_command(c) IN
  IF e.exc # "none"
    THEN [raised |-> TRUE, log |-> "encode_error", frames |-> << >>]
    ELSE LET s == send_udp_command(e.frame, outcome) IN
         [raised |-> s.raised, log |-> outcome,
          frames |-> IF s.handed
                       THEN <<[via |-> "udp", data |-> e.frame]>>
                       ELSE << >>]

\* ------------------------------------------------------------------------
\* The stream path: RakoTelnetInterface (telnet_interface.py 19-86)
\* ------------------------------------------------------------------------
WriteOutcomes == {"ok", "error"}
ReadOutcomes == {"OK", "other", "eof", "error"}

\* the line send_scene_command / send_level_command writes, or << >> when
\* post_command calls neither (lines 581-592)
StreamLine(c) ==
  IF c.scene # NoneVal
    THEN <<"ROOM", c.room_id, "CHANNEL", c.channel_id, "SCENE", c.scene>>
  ELSE IF c.brightness # NoneVal
    THEN <<"ROOM", c.room_id, "CHANNEL", c.channel_id, "LEVEL", c.brightness>>
  ELSE << >>

\* send_command, lines 45-62, under its lock: connect when the link is not
\* connected, write and drain, read the reply.  raised: the exception leaves
\* send_command (and send_scene_command / send_level_command re-raise it).
\* fresh is the name a connection opened by this call gets; opened: the
\* call opened it; broken: the connections on which the exchange failed.
send_command(link, line, connectOk, w, r, fresh) ==
  LET conn == IF link.connected THEN link.conn ELSE fresh
      opened == ~link.connected /\ connectOk
  IN
  IF ~link.connected /\ ~connectOk
    THEN [raised |-> TRUE, written |-> << >>, log |-> "connect_error",
          opened |-> FALSE, broken |-> {},
          link |-> [link EXCEPT !.connected = FALSE]]
  ELSE IF w = "error"
    THEN [raised |-> TRUE, written |-> << >>, log |-> "write_error",
          opened |-> opened, broken |-> {conn},
          link |-> [link EXCEPT !.connected = FALSE, !.conn = conn]]
  ELSE IF r = "error"
    THEN [raised |-> TRUE,
          written |-> <<[via |-> "telnet", data |-> line, conn |-> conn]>>,
          log |-> "read_error",
          opened |-> opened, broken |-> {conn},
          link |-> [link EXCEPT !.connected = FALSE, !.conn = conn]]
  ELSE [raised |-> FALSE,
        written |-> <<[via |-> "telnet", data |-> line, conn |-> conn]>>,
        log |-> IF r = "OK" THEN "reply_ok"
                ELSE IF r = "other" THEN "reply_other" ELSE "reply_eof",
        opened |-> opened, broken |-> {},
        link |-> [link EXCEPT !.connected = TRUE, !.conn = conn]]

\* post_command lines 595-598: after a failed exchange the interface object
\* is dropped (self._telnet = None)
stream_failed_keeping(link) == [link EXCEPT !.connected = TRUE]

stream_failed(link) == NoTelnet

\* ------------------------------------------------------------------------
\* RakoBridge.post_command (RakoBridge.py 559-604), step by step
\* ------------------------------------------------------------------------
command_retries == 3

\* RakoBridge.py imports logging, enum, typing, telnet_interface,
\* dataclasses, socket, functools and rakomqtt.model (lines 1-9): the name
\* asyncio at line 602 is not defined, so evaluating asyncio.sleep raises
\* NameError
asyncio_is_defined == FALSE

\* a caller invokes post_command(rako_command)
DCall ==
  /\ dpc = "idle"
  /\ calls < MaxCalls
  /\ \E c \in Commands : cur' = c
  /\ calls' = calls + 1
  /\ attempt' = 0
  /\ res' = "none"
  /\ udpLog' = << >>
  /\ tnLog' = << >>
  /\ dpc' = "attempt"
  /\ UNCHANGED <<use_telnet, telnet, sent>>
  /\ UNCHANGED bridgeVars
  /\ UNCHANGED moreVars

\* lines 561-574: the head of one attempt, with the datagram try block
DAttempt ==
  /\ dpc = "attempt"
  /\ IF ~use_telnet
       THEN \E o \in UdpOutcomes :
              LET r == PostDatagram(cur, o) IN
              \* nothing is sent when the encoding raises
              /\ to_udp_command(cur).exc # "none" => o = "ack"
              /\ udpLog' = Append(udpLog, r.log)
              /\ sent' = sent \o r.frames
              /\ IF r.raised
                   THEN /\ use_telnet' = TRUE
                        /\ dpc' = "stream"
                        /\ UNCHANGED res
                   ELSE /\ res' = "success"
                        /\ dpc' = "idle"
                        /\ UNCHANGED use_telnet
       ELSE /\ dpc' = "stream"
            /\ UNCHANGED <<use_telnet, res, udpLog, sent>>
  /\ UNCHANGED <<telnet, attempt, cur, tnLog, calls>>
  /\ UNCHANGED bridgeVars
  /\ UNCHANGED moreVars

\* lines 577-580 with _init_telnet (396-404): the link is created and
\* connected when there is none; a failed connect leaves _telnet None and
\* is not an error
DStream ==
  /\ dpc = "stream"
  /\ IF telnet.exists
       THEN /\ dpc' = "exchange"
            /\ UNCHANGED <<telnet, tnLog, links>>
       ELSE \E ok \in BOOLEAN :
              /\ telnet' = IF ok THEN [exists |-> TRUE, connected |-> TRUE,
                                       conn |-> links.opened + 1]
                                 ELSE NoTelnet
              /\ links' = IF ok THEN [links EXCEPT !.opened = @ + 1]
                                ELSE links
              /\ dpc' = IF ok THEN "exchange" ELSE "backoff"
              /\ tnLog' = IF ok THEN tnLog ELSE Append(tnLog, "no_link")
  /\ UNCHANGED <<use_telnet, attempt, cur, res, udpLog, calls, sent>>
  /\ UNCHANGED bridgeVars
  /\ UNCHANGED <<lastDispatch, rako_socket>>
  /\ UNCHANGED codecVars
  /\ UNCHANGED auxVars
  /\ UNCHANGED streamVars

\* lines 581-598: the scene or level exchange, the return, and the except
\* clause that drops the link and clears the flag
DExchange ==
  /\ dpc = "exchange"
  /\ IF StreamLine(cur) = << >>
       THEN /\ tnLog' = Append(tnLog, "nothing_written")
            /\ res' = "success"
            /\ dpc' = "idle"
            /\ UNCHANGED <<telnet, use_telnet, sent, links>>
       ELSE \E connectOk \in BOOLEAN, w \in WriteOutcomes,
               r \in ReadOutcomes :
              LET x == send_command(telnet, StreamLine(cur), connectOk, w, r,
                                    links.opened + 1)
              IN
              \* no connect on a connected link, no read after a failed write
              /\ telnet.connected => connectOk
              /\ w = "error" => r = "error"
              /\ tnLog' = Append(tnLog, x.log)
              /\ sent' = sent \o x.written
              /\ links' = [opened |-> IF x.opened THEN links.opened + 1
                                                  ELSE links.opened,
                           failed |-> links.failed \cup x.broken]
              /\ IF x.raised
                   THEN /\ telnet' = stream_failed(x.link)
                        /\ use_telnet' = FALSE
                        /\ dpc' = "backoff"
                        /\ UNCHANGED res
                   ELSE /\ telnet' = x.link
                        /\ res' = "success"
                        /\ dpc' = "idle"
                        /\ UNCHANGED use_telnet
  /\ UNCHANGED <<attempt, cur, udpLog, calls>>
  /\ UNCHANGED bridgeVars
  /\ UNCHANGED <<lastDispatch, rako_socket>>
  /\ UNCHANGED codecVars
  /\ UNCHANGED auxVars
  /\ UNCHANGED streamVars

\* lines 600-604: the delay between attempts, the next turn of the loop, and
\* the raise after the last one
DBackoff ==
  /\ dpc = "backoff"
  /\ IF attempt < command_retries - 1
       THEN IF asyncio_is_defined
              THEN /\ attempt' = attempt + 1
                   /\ dpc' = "attempt"
                   /\ UNCHANGED res
              ELSE /\ res' = "NameError"
                   /\ dpc' = "idle"
                   /\ UNCHANGED attempt
       ELSE /\ res' = "TransportExhausted"
            /\ dpc' = "idle"
            /\ UNCHANGED attempt
  /\ UNCHANGED <<use_telnet, telnet, cur, udpLog, tnLog, calls, sent>>
  /\ UNCHANGED bridgeVars
  /\ UNCHANGED moreVars

\* ------------------------------------------------------------------------
\* Command-processing: process_mqtt_messages (bridge.py 216-264)
\* ------------------------------------------------------------------------
\* lines 228-230: the subscriptions; a failed subscribe ends the task
ProcessSubscribe ==
  /\ Runs("process_mqtt", {"start"})
  /\ \E ok \in BOOLEAN :
       pc' = [pc EXCEPT !["process_mqtt"] =
                          IF ok THEN "get_message" ELSE "failed"]
  /\ UNCHANGED <<runPc, runErr, cancelReq, sock, is_connected, udp_queue,
                 nRecv, lastDecode, published, liveness, message_queue, nMsgs,
                 beats, runLog, sent>>
  /\ UNCHANGED dispatchVars
  /\ UNCHANGED moreVars

\* _on_message, lines 46-52: the bus client queues an inbound message; the
\* put is a coroutine handed to the loop (run_coroutine_threadsafe)
OnMessage ==
  /\ is_connected
  /\ loop_thread = "free"
  /\ pc["process_mqtt"] \notin {"absent", "start"}
  /\ MoreEvents
  /\ nMsgs' = nMsgs + 1
  /\ \E msg \in Messages : message_queue' = Append(message_queue, msg)
  /\ UNCHANGED <<runPc, runErr, pc, cancelReq, sock, is_connected, udp_queue,
                 nRecv, lastDecode, published, liveness, beats, runLog, sent>>
  /\ UNCHANGED dispatchVars
  /\ UNCHANGED moreVars

\* lines 234-264: one message is taken, translated and dispatched.  Every
\* command from_mqtt builds has a scene, a brightness or a command type, so
\* to_udp_command does not raise, and send_udp_command never does: the call
\* of post_command ends in its datagram try block (the stream path is the
\* subject of the D... actions).
\* The body of the loop for one message (lines 244-264): log is how it
\* ended, frames what was handed to the datagram socket, pc where the
\* activity is afterwards.  A message that gives no command is logged at
\* line 262, a failed send inside send_udp_command; the loop goes on.
process_mqtt_message_giving_up(msg, o) ==
  LET c == from_mqtt(msg)
      r == PostDatagram(c, o)
  IN  IF c = NoCommand
        THEN [log |-> "no_command", frames |-> << >>, raised |-> FALSE,
              pc |-> "failed"]
        ELSE [log |-> r.log, frames |-> r.frames, raised |-> r.raised,
              pc |-> IF r.log \in {"send_error", "timeout"}
                       THEN "failed" ELSE "get_message"]

process_mqtt_message(msg, o) ==
  LET c == from_mqtt(msg)
      r == PostDatagram(c, o)
  IN  IF c = NoCommand
        THEN [log |-> "no_command", frames |-> << >>, raised |-> FALSE,
              pc |-> "get_message"]
        ELSE [log |-> r.log, frames |-> r.frames, raised |-> r.raised,
              pc |-> IF r.raised THEN "post_command_stream"
                                 ELSE "get_message"]

ProcessMessage ==
  /\ Runs("process_mqtt", {"get_message"})
  /\ message_queue # << >>
  /\ ~use_telnet
  /\ message_queue' = Tail(message_queue)
  /\ \E o \in UdpOutcomes :
       LET h == process_mqtt_message(Head(message_queue), o) IN
       \* nothing is sent when the message gives no command
       /\ h.log = "no_command" => o = "ack"
       /\ sent' = sent \o h.frames
       /\ use_telnet' = h.raised
       /\ lastDispatch' = h.log
       /\ pc' = [pc EXCEPT !["process_mqtt"] = h.pc]
  /\ UNCHANGED <<runPc, runErr, cancelReq, sock, is_connected, udp_queue,
                 nRecv, lastDecode, published, liveness, nMsgs, beats, runLog>>
  /\ UNCHANGED <<telnet, dpc, attempt, cur, res, udpLog, tnLog, calls>>
  /\ UNCHANGED <<rako_socket, links>>
  /\ UNCHANGED codecVars
  /\ UNCHANGED auxVars
  /\ UNCHANGED streamVars

\* ------------------------------------------------------------------------
\* Command-processing with the datagram exchange in two steps: sendto, then
\* the recv that blocks until the reply or the timeout (RakoBridge.py
\* 547-548; the socket is a blocking one with a timeout, line 375)
\* ------------------------------------------------------------------------
\* AsyncioMQTTClient.get_message (bridge.py 120-122): the oldest message
get_message_latest(q) ==
  [item |-> q[Len(q)], rest |-> SubSeq(q, 1, Len(q) - 1)]

get_message(q) == [item |-> Head(q), rest |-> Tail(q)]

\* bridge.py 234-260 up to sendto: the message is taken and translated, the
\* command encoded and its frame handed to the datagram socket; the task
\* is then inside socket.recv.  A message that gives no command, or a
\* sendto that raises (caught at 556), ends the handling at once.
ProcessSend ==
  /\ Runs("process_mqtt", {"get_message"})
  /\ message_queue # << >>
  /\ ~use_telnet
  /\ LET g == get_message(message_queue) IN
     /\ message_queue' = g.rest
     /\ mqtt_message' = g.item
     /\ \E o \in {"ack", "send_error"} :
          LET h == process_mqtt_message(g.item, o) IN
          /\ h.log = "no_command" => o = "ack"
          /\ sent' = sent \o h.frames
          /\ IF h.frames = << >>
               THEN /\ lastDispatch' = h.log
                    /\ pc' = [pc EXCEPT !["process_mqtt"] = h.pc]
                    /\ UNCHANGED loop_thread
               ELSE /\ lastDispatch' = "awaiting_reply"
                    /\ pc' = [pc EXCEPT !["process_mqtt"] = "socket_recv"]
                    /\ loop_thread' = "process_mqtt"
  /\ UNCHANGED <<runPc, runErr, cancelReq, sock, is_connected, udp_queue,
                 nRecv, lastDecode, published, liveness, nMsgs, beats, runLog>>
  /\ UNCHANGED dispatchVars
  /\ UNCHANGED <<rako_socket, links>>
  /\ UNCHANGED <<host, fade_name, default_fade_rate, probes, kpc, processed>>
  /\ UNCHANGED codecVars
  /\ UNCHANGED streamVars

\* RakoBridge.py 548-557, then 568 and bridge.py 260: recv returns the
\* acknowledgement or another reply, or times out; post_command returns
ProcessRecv ==
  /\ pc["process_mqtt"] = "socket_recv"
  /\ loop_thread = "process_mqtt"
  /\ \E o \in {"ack", "other", "timeout"} :
       LET h == process_mqtt_message(mqtt_message, o) IN
       /\ lastDispatch' = h.log
       /\ pc' = [pc EXCEPT !["process_mqtt"] = h.pc]
  /\ loop_thread' = "free"
  /\ UNCHANGED <<runPc, runErr, cancelReq, sock, is_connected, udp_queue,
                 nRecv, lastDecode, published, liveness, message_queue, nMsgs,
                 beats, runLog, sent>>
  /\ UNCHANGED dispatchVars
  /\ UNCHANGED <<rako_socket, links>>
  /\ UNCHANGED <<mqtt_message, host, fade_name, default_fade_rate, probes,
                 kpc, processed>>
  /\ UNCHANGED codecVars
  /\ UNCHANGED streamVars

\* run has created the four tasks and waits for the first to complete
\* (bridge.py 369-389 done without an error)
InitLoop ==
  /\ InitDispatcher
  /\ CodecIdle
  /\ StreamIdle
  /\ AuxIdle
  /\ runPc = "wait_first"
  /\ runErr = FALSE
  /\ pc = [t \in Tasks |->
            IF t = "watch_rako" THEN "recv"
            ELSE IF t = "publish_status" THEN "get"
            ELSE "start"]
  /\ cancelReq = [t \in Tasks |-> FALSE]
  /\ sock = "open"
  /\ is_connected = TRUE
  /\ udp_queue = << >>
  /\ nRecv = 0
  /\ lastDecode = "none"
  /\ published = << >>
  /\ liveness = << >>
  /\ message_queue = << >>
  /\ nMsgs = 0
  /\ beats = 0
  /\ runLog = <<"tasks_created">>
  /\ lastDispatch = "none"

\* ------------------------------------------------------------------------
\* The codec on its own: to_udp_command (RakoBridge.py 319-352) and
\* from_byte_list (103-177) applied to inputs of their whole domain
\* ------------------------------------------------------------------------
\* room ids of 10 bits, channel ids and levels of 8 bits, at their ends and
\* in between
CodecRooms == {0, 4, 255, 256, 700, 1023}
CodecChannels == {0, 2, 255}
CodecLevels == {0, 1, 128, 255}
CodecScenes == {0, 1, 4, 16}
CodecFadeRates == {NoneVal, INSTANT, SLOW}
CodecCommandTypes == {OFF, STOP, SET_LEVEL}

CodecCommands ==
  {RakoCommand(r, c, NoneVal, b, NoneVal, f) :
     r \in CodecRooms, c \in CodecChannels, b \in CodecLevels,
     f \in CodecFadeRates}
  \cup
  {RakoCommand(r, c, sc, NoneVal, NoneVal, f) :
     r \in CodecRooms, c \in CodecChannels, sc \in CodecScenes,
     f \in CodecFadeRates}
  \cup
  {RakoCommand(r, c, NoneVal, NoneVal, t, f) :
     r \in CodecRooms, c \in CodecChannels, t \in CodecCommandTypes,
     f \in CodecFadeRates}

\* frames a datagram can carry: either marker, opcodes handled, enumerated
\* but not handled, and not enumerated, payloads of 0 to 3 bytes, a length
\* byte that agrees with the payload, announces none or announces more than
\* is there, room and channel bytes at their ends, and frames cut short
CodecOpcodes == {BUTTON_PRESS, LEVEL_SET_LEGACY, SET_LEVEL, SET_SCENE,
                 FADE_UP, FADE_DOWN, STOP, OFF, IDENT, STORE, 7, 200}
CodecPayloads == {<< >>, <<1>>, <<2, 0>>, <<2, 1>>, <<2, 2>>, <<2, 3>>,
                  <<2, 4>>, <<2, 5>>, <<2, 255>>, <<2, 3, 77>>}

CodecFrames ==
  {<<mk, lb, 0, 4, ch, op>> \o pl :
     mk \in {83, 82}, lb \in {5}, ch \in {0, 2}, op \in CodecOpcodes,
     pl \in {<< >>}}
  \cup
  {<<mk, 5 + Len(pl), 0, 4, ch, op>> \o pl :
     mk \in {83, 82}, ch \in {0, 2}, op \in CodecOpcodes,
     pl \in CodecPayloads}
  \cup
  {<<83, 5, 0, 4, 2, op>> \o pl : op \in CodecOpcodes, pl \in CodecPayloads}
  \cup
  {<< >>, <<83>>, <<83, 7>>, <<83, 7, 0, 4, 2>>, <<82>>}
  \cup
  {<<83, 5 + Len(pl), 0, r, 255, op>> \o pl :
     r \in {0, 255}, op \in {BUTTON_PRESS, SET_LEVEL, FADE_UP, STOP},
     pl \in {<< >>, <<2, 255>>}}
  \cup Frames

InitCodec ==
  /\ InitBridge
  /\ InitDispatcher
  /\ StreamIdle
  /\ AuxIdle
  /\ cpc = "input"
  /\ status = NoStatus
  /\ \/ rako_command \in CodecCommands /\ byte_list = << >>
     \/ rako_command = NoCommand /\ byte_list \in CodecFrames

\* rako_command.to_udp_command()
Encode ==
  /\ cpc = "input"
  /\ rako_command # NoCommand
  /\ LET e == to_udp_command(rako_command) IN
     /\ byte_list' = e.frame
     /\ cpc' = IF e.exc = "none" THEN "encoded" ELSE "raised"
  /\ UNCHANGED <<rako_command, status>>
  /\ UNCHANGED <<lastDispatch, rako_socket, links, sent>>
  /\ UNCHANGED streamVars
  /\ UNCHANGED bridgeVars
  /\ UNCHANGED dispatchVars
  /\ UNCHANGED auxVars

\* RakoStatusMessage.from_byte_list(byte_list), on a frame received or on
\* the frame just encoded
Decode ==
  /\ \/ cpc = "encoded"
     \/ cpc = "input" /\ rako_command = NoCommand
  /\ status' = from_byte_list(byte_list)
  /\ cpc' = "decoded"
  /\ UNCHANGED <<rako_command, byte_list>>
  /\ UNCHANGED <<lastDispatch, rako_socket, links, sent>>
  /\ UNCHANGED streamVars
  /\ UNCHANGED bridgeVars
  /\ UNCHANGED dispatchVars
  /\ UNCHANGED auxVars

\* bridge.py 206: processed = RakoBridge.process_udp_bytes(list(data)) on a
\* frame received; status is the message it decodes at line 646
ProcessUdp ==
  /\ cpc = "input"
  /\ rako_command = NoCommand
  /\ status' = from_byte_list(byte_list)
  /\ processed' = process_udp_bytes(byte_list)
  /\ cpc' = "processed"
  /\ UNCHANGED <<rako_command, byte_list>>
  /\ UNCHANGED <<lastDispatch, rako_socket, links, sent>>
  /\ UNCHANGED <<mqtt_message, host, fade_name, default_fade_rate, probes,
                 kpc, loop_thread>>
  /\ UNCHANGED streamVars
  /\ UNCHANGED bridgeVars
  /\ UNCHANGED dispatchVars

\* ------------------------------------------------------------------------
\* Translation on its own: RakoCommand.from_mqtt (RakoBridge.py 216-317)
\* applied to bus messages, and the dispatch of what it returns (bridge.py
\* 252-262)
\* ------------------------------------------------------------------------
\* payload texts: the cover words bare and as a JSON string, another word,
\* objects with a command, with and without state, brightness and
\* transition, and an object with a brightness outside 0..255
TranslatePayloads ==
  {BusPayload(f, t, "", NoneVal, NoneVal, "") :
     f \in {"text", "string"}, t \in {"OPEN", "CLOSE", "STOP", "TOGGLE"}}
  \cup
  {BusPayload("object", "", st, b, tr, c) :
     st \in {"", "ON", "OFF"}, b \in {NoneVal, 0, 128, 255, 300},
     tr \in {NoneVal, 0, 8}, c \in {"", "STOP"}}

TranslateMessages ==
  {BusMessage(k, r, c, p) :
     k \in {"channel", "command"}, r \in {4, 7}, c \in {1, 2},
     p \in TranslatePayloads}
  \cup
  {BusMessage(k, 5, 0, p) : k \in {"room", "other"}, p \in TranslatePayloads}

InitTranslate ==
  /\ InitBridge
  /\ InitDispatcher
  /\ StreamIdle
  /\ rako_command = NoCommand
  /\ byte_list = << >>
  /\ status = NoStatus
  /\ cpc = "message"
  /\ mqtt_message \in TranslateMessages
  /\ host = ConfiguredHost
  /\ fade_name = <<109, 101, 100, 105, 117, 109>>
  /\ default_fade_rate = MEDIUM
  /\ probes = << >>
  /\ kpc = "constructed"
  /\ loop_thread = "free"
  /\ processed = NoProcessed

\* bridge.py 252-255: rako_command = RakoCommand.from_mqtt(topic, payload)
Translate ==
  /\ cpc = "message"
  /\ rako_command' = from_mqtt(mqtt_message)
  /\ cpc' = IF from_mqtt(mqtt_message) = NoCommand THEN "no_command"
                                                   ELSE "translated"
  /\ UNCHANGED <<byte_list, status>>
  /\ UNCHANGED <<lastDispatch, rako_socket, links, sent>>
  /\ UNCHANGED streamVars
  /\ UNCHANGED bridgeVars
  /\ UNCHANGED dispatchVars
  /\ UNCHANGED auxVars

\* bridge.py 257-260: a command is passed to post_command, which encodes it
\* and hands the frame to the datagram socket
Dispatch ==
  /\ cpc = "translated"
  /\ \E o \in UdpOutcomes :
       LET r == PostDatagram(rako_command, o) IN
       /\ byte_list' = to_udp_command(rako_command).frame
       /\ sent' = sent \o r.frames
  /\ cpc' = "dispatched"
  /\ UNCHANGED <<rako_command, status>>
  /\ UNCHANGED <<lastDispatch, rako_socket, links>>
  /\ UNCHANGED streamVars
  /\ UNCHANGED bridgeVars
  /\ UNCHANGED dispatchVars
  /\ UNCHANGED auxVars

\* ------------------------------------------------------------------------
\* Construction: RakoBridge.__init__ (RakoBridge.py 372-379) with
\* find_bridge / poll_for_bridge_response (504-531) and from_string (82-89)
\* ------------------------------------------------------------------------
\* the hosts that may answer a probe, and what one probe can get: a reply
\* from one of them, socket.timeout, or an OSError from sendto
Responders == {"192.168.1.20", "192.168.1.21"}
ProbeOutcomes == Responders \cup {"timeout", "send_error"}

\* the ways of writing a word in upper and lower case letters
RECURSIVE Variants(_)
Variants(w) ==
  IF w = << >> THEN {<< >>}
  ELSE {<<c>> \o t :
          c \in (IF Head(w) \in 65..90 THEN {Head(w), Head(w) + 32}
                                       ELSE {Head(w)}),
          t \in Variants(Tail(w))}

lower(w) == [i \in DOMAIN w |-> IF w[i] \in 65..90 THEN w[i] + 32 ELSE w[i]]

\* values of the default_fade_rate argument: fast and slow in every mix of
\* cases, the other rate names in upper case, lower case and capitalised,
\* and strings that are no rate name: "bogus", "", "fas", "fastt", "fast "
\* "very slow", "medium_" and "2"
FadeNames ==
  Variants(NameFAST) \cup Variants(NameSLOW)
  \cup {n : n \in DOMAIN RakoFadeRateMembers}
  \cup {lower(n) : n \in DOMAIN RakoFadeRateMembers}
  \cup {<<Head(n)>> \o lower(Tail(n)) : n \in DOMAIN RakoFadeRateMembers}
  \cup {<<98, 111, 103, 117, 115>>, << >>, <<102, 97, 115>>,
        <<102, 97, 115, 116, 116>>, <<102, 97, 115, 116, 32>>,
        <<118, 101, 114, 121, 32, 115, 108, 111, 119>>,
        <<109, 101, 100, 105, 117, 109, 95>>, <<50>>}

\* RakoBridge(host, default_fade_rate) is called: no field is set yet
InitConstruct ==
  /\ InitBridge
  /\ CodecIdle
  /\ StreamIdle
  /\ rako_socket = "none"
  /\ links = [opened |-> 0, failed |-> {}]
  /\ use_telnet = FALSE
  /\ telnet = NoTelnet
  /\ dpc = "idle"
  /\ attempt = 0
  /\ cur = NoCommand
  /\ res = "none"
  /\ udpLog = << >>
  /\ tnLog = << >>
  /\ calls = 0
  /\ sent = << >>
  /\ mqtt_message = NoMessage
  /\ host \in {NoHost, ConfiguredHost}
  /\ fade_name \in FadeNames
  /\ default_fade_rate = NoneVal
  /\ probes = << >>
  /\ kpc = "new"
  /\ loop_thread = "free"
  /\ processed = NoProcessed

\* line 373: self.host = host if host else self.find_bridge(); find_bridge
\* makes a broadcast socket and poll_for_bridge_response binds it
ConstructStart ==
  /\ kpc = "new"
  /\ kpc' = IF host # NoHost THEN "fields" ELSE "probe"
  /\ UNCHANGED <<mqtt_message, host, fade_name, default_fade_rate, probes,
                 loop_thread, processed>>
  /\ UNCHANGED <<lastDispatch, rako_socket, links, sent>>
  /\ UNCHANGED codecVars
  /\ UNCHANGED streamVars
  /\ UNCHANGED bridgeVars
  /\ UNCHANGED dispatchVars

\* One turn of the loop of poll_for_bridge_response (lines 522-531), the
\* i-th of range(1, 4), and what find_bridge makes of its result (510-517):
\* a reply ends the loop and its source address is the host; a timeout is
\* followed by the next turn or, after the third, by None; an error of
\* sendto is not caught.
poll_for_bridge_response_four(i, outcome) ==
  IF outcome = "send_error" THEN [pc |-> "raised", host |-> NoHost]
  ELSE IF outcome \in Responders THEN [pc |-> "fields", host |-> outcome]
  ELSE IF i < 4 THEN [pc |-> "probe", host |-> NoHost]
  ELSE [pc |-> "fields", host |-> NoHost]

poll_for_bridge_response(i, outcome) ==
  IF outcome = "send_error" THEN [pc |-> "raised", host |-> NoHost]
  ELSE IF outcome \in Responders THEN [pc |-> "fields", host |-> outcome]
  ELSE IF i < 3 THEN [pc |-> "probe", host |-> NoHost]
  ELSE [pc |-> "fields", host |-> NoHost]

\* lines 524-530: the probe b'D' (one byte, 68) is broadcast and recvfrom
\* returns a reply or times out
Probe ==
  /\ kpc = "probe"
  /\ \E o \in ProbeOutcomes :
       LET r == poll_for_bridge_response(Len(probes) + 1, o) IN
       /\ probes' = Append(probes, [data |-> <<68>>, got |-> o])
       /\ host' = r.host
       /\ kpc' = r.pc
  /\ UNCHANGED <<mqtt_message, fade_name, default_fade_rate, loop_thread,
                 processed>>
  /\ UNCHANGED <<lastDispatch, rako_socket, links, sent>>
  /\ UNCHANGED codecVars
  /\ UNCHANGED streamVars
  /\ UNCHANGED bridgeVars
  /\ UNCHANGED dispatchVars

\* lines 374-379: the datagram socket, the dispatcher's fields and
\* default_fade_rate = RakoFadeRate.from_string(default_fade_rate)
ConstructFields ==
  /\ kpc = "fields"
  /\ rako_socket' = "open"
  /\ default_fade_rate' = from_string(fade_name)
  /\ kpc' = "constructed"
  /\ UNCHANGED <<mqtt_message, host, fade_name, probes, loop_thread,
                 processed>>
  /\ UNCHANGED <<lastDispatch, links, sent>>
  /\ UNCHANGED codecVars
  /\ UNCHANGED streamVars
  /\ UNCHANGED bridgeVars
  /\ UNCHANGED dispatchVars

\* ------------------------------------------------------------------------
\* The stream interface shared by tasks (telnet_interface.py 11-116): tasks
\* that call send_command and one task that iterates monitor_responses
\* ------------------------------------------------------------------------
\* the interface constructed (lines 11-17), nobody using it yet
InitStream ==
  /\ InitBridge
  /\ CodecIdle
  /\ AuxIdle
  /\ rako_socket = "open"
  /\ links = [opened |-> 0, failed |-> {}]
  /\ use_telnet = TRUE
  /\ telnet = [exists |-> TRUE, connected |-> FALSE, conn |-> 0]
  /\ dpc = "idle"
  /\ attempt = 0
  /\ cur = NoCommand
  /\ res = "none"
  /\ udpLog = << >>
  /\ tnLog = << >>
  /\ calls = 0
  /\ sent = << >>
  /\ lock = "none"
  /\ spc = [s \in Senders |-> At("idle", 0)]
  /\ lpc = At("idle", 0)
  /\ nOps = 0

\* the line each sender writes
LineOf(s) == IF s = "d1" THEN StreamLine(CmdLevel) ELSE StreamLine(CmdScene)

\* send_command lines 48-53 with the lock held, up to the first await: the
\* connect when the interface is not connected, else the write and drain
StartExchange(s) ==
  IF telnet.connected
    THEN /\ sent' = Append(sent, [via |-> "telnet", data |-> LineOf(s),
                                  conn |-> telnet.conn])
         /\ spc' = [spc EXCEPT ![s] = At("drain", telnet.conn)]
    ELSE /\ spc' = [spc EXCEPT ![s] = At("connect", 0)]
         /\ UNCHANGED sent

\* line 47: send_command is called; the lock is taken when it is free
SendCall(s) ==
  /\ spc[s].at = "idle"
  /\ nOps < MaxOps
  /\ nOps' = nOps + 1
  /\ IF lock = "none"
       THEN /\ lock' = s
            /\ StartExchange(s)
       ELSE /\ spc' = [spc EXCEPT ![s] = At("wait_lock", 0)]
            /\ UNCHANGED <<lock, sent>>
  /\ UNCHANGED <<telnet, links, lpc>>
  /\ UNCHANGED <<use_telnet, dpc, attempt, cur, res, udpLog, tnLog, calls>>
  /\ UNCHANGED <<lastDispatch, rako_socket>>
  /\ UNCHANGED codecVars
  /\ UNCHANGED auxVars
  /\ UNCHANGED bridgeVars

\* line 47: a task waiting for the lock gets it
SendWake(s) ==
  /\ spc[s].at = "wait_lock"
  /\ lock = "none"
  /\ lock' = s
  /\ StartExchange(s)
  /\ UNCHANGED <<telnet, links, lpc, nOps>>
  /\ UNCHANGED <<use_telnet, dpc, attempt, cur, res, udpLog, tnLog, calls>>
  /\ UNCHANGED <<lastDispatch, rako_socket>>
  /\ UNCHANGED codecVars
  /\ UNCHANGED auxVars
  /\ UNCHANGED bridgeVars

\* lines 49 and 19-30: connect returns (reader and writer are replaced, the
\* line is written) or raises (the lock is released, the call ends)
SendConnect(s) ==
  /\ spc[s].at = "connect"
  /\ \E ok \in BOOLEAN :
       IF ok
         THEN /\ telnet' = [exists |-> TRUE, connected |-> TRUE,
                            conn |-> links.opened + 1]
              /\ links' = [links EXCEPT !.opened = @ + 1]
              /\ sent' = Append(sent, [via |-> "telnet", data |-> LineOf(s),
                                       conn |-> links.opened + 1])
              /\ spc' = [spc EXCEPT ![s] = At("drain", links.opened + 1)]
              /\ UNCHANGED lock
         ELSE /\ telnet' = [telnet EXCEPT !.connected = FALSE]
              /\ lock' = "none"
              /\ spc' = [spc EXCEPT ![s] = At("idle", 0)]
              /\ UNCHANGED <<links, sent>>
  /\ UNCHANGED <<lpc, nOps>>
  /\ UNCHANGED <<use_telnet, dpc, attempt, cur, res, udpLog, tnLog, calls>>
  /\ UNCHANGED <<lastDispatch, rako_socket>>
  /\ UNCHANGED codecVars
  /\ UNCHANGED auxVars
  /\ UNCHANGED bridgeVars

\* lines 53-62: drain returns and reader.read is called on the interface's
\* current reader (StreamReader raises RuntimeError when another coroutine
\* is already waiting on it), or drain raises
SendDrain(s) ==
  /\ spc[s].at = "drain"
  /\ \E ok \in BOOLEAN :
       IF ok /\ ~(lpc.at = "read" /\ lpc.conn = telnet.conn)
         THEN /\ spc' = [spc EXCEPT ![s] = At("read", telnet.conn)]
              /\ UNCHANGED <<telnet, lock, links>>
         ELSE /\ telnet' = [telnet EXCEPT !.connected = FALSE]
              /\ links' = [links EXCEPT !.failed = @ \cup {spc[s].conn}]
              /\ lock' = "none"
              /\ spc' = [spc EXCEPT ![s] = At("idle", 0)]
  /\ UNCHANGED <<lpc, nOps, sent>>
  /\ UNCHANGED <<use_telnet, dpc, attempt, cur, res, udpLog, tnLog, calls>>
  /\ UNCHANGED <<lastDispatch, rako_socket>>
  /\ UNCHANGED codecVars
  /\ UNCHANGED auxVars
  /\ UNCHANGED bridgeVars

\* lines 56-62: the read returns what arrived (the call returns it) or
\* raises; the lock is released either way
SendRead(s) ==
  /\ spc[s].at = "read"
  /\ \E r \in ReadOutcomes :
       IF r = "error"
         THEN /\ telnet' = [telnet EXCEPT !.connected = FALSE]
              /\ links' = [links EXCEPT !.failed = @ \cup {spc[s].conn}]
         ELSE UNCHANGED <<telnet, links>>
  /\ lock' = "none"
  /\ spc' = [spc EXCEPT ![s] = At("idle", 0)]
  /\ UNCHANGED <<lpc, nOps, sent>>
  /\ UNCHANGED <<use_telnet, dpc, attempt, cur, res, udpLog, tnLog, calls>>
  /\ UNCHANGED <<lastDispatch, rako_socket>>
  /\ UNCHANGED codecVars
  /\ UNCHANGED auxVars
  /\ UNCHANGED bridgeVars

\* monitor_responses lines 104-116, from the loop condition to the await in
\* reader.read: no lock is taken.  The result is the listener's position
\* and the interface's _connected flag.
monitor_loop(link, readers) ==
  IF ~link.connected
    THEN [lpc |-> At("ended", 0), connected |-> FALSE]
  ELSE IF link.conn \in readers
    THEN [lpc |-> At("ended", 0), connected |-> FALSE]
  ELSE [lpc |-> At("read", link.conn), connected |-> TRUE]

\* the connections on which a send_command is waiting in reader.read
WaitingReaders == {spc[s].conn : s \in {x \in Senders : spc[x].at = "read"}}

\* lines 101-106: iteration of monitor_responses starts
ListenStart ==
  /\ lpc.at = "idle"
  /\ nOps < MaxOps
  /\ nOps' = nOps + 1
  /\ IF ~telnet.connected
       THEN /\ lpc' = At("connect", 0)
            /\ UNCHANGED telnet
       ELSE LET m == monitor_loop(telnet, WaitingReaders) IN
            /\ lpc' = m.lpc
            /\ telnet' = [telnet EXCEPT !.connected = m.connected]
  /\ UNCHANGED <<lock, spc, links, sent>>
  /\ UNCHANGED <<use_telnet, dpc, attempt, cur, res, udpLog, tnLog, calls>>
  /\ UNCHANGED <<lastDispatch, rako_socket>>
  /\ UNCHANGED codecVars
  /\ UNCHANGED auxVars
  /\ UNCHANGED bridgeVars

\* lines 102 and 19-30: the listener's connect returns (reader and writer
\* are replaced) or raises
ListenConnect ==
  /\ lpc.at = "connect"
  /\ \E ok \in BOOLEAN :
       IF ok
         THEN LET link == [exists |-> TRUE, connected |-> TRUE,
                           conn |-> links.opened + 1]
                  m == monitor_loop(link, WaitingReaders)
              IN  /\ telnet' = [link EXCEPT !.connected = m.connected]
                  /\ links' = [links EXCEPT !.opened = @ + 1]
                  /\ lpc' = m.lpc
         ELSE /\ telnet' = [telnet EXCEPT !.connected = FALSE]
              /\ lpc' = At("ended", 0)
              /\ UNCHANGED links
  /\ UNCHANGED <<lock, spc, nOps, sent>>
  /\ UNCHANGED <<use_telnet, dpc, attempt, cur, res, udpLog, tnLog, calls>>
  /\ UNCHANGED <<lastDispatch, rako_socket>>
  /\ UNCHANGED codecVars
  /\ UNCHANGED auxVars
  /\ UNCHANGED bridgeVars

\* lines 106-116: the listener's read returns data (it is yielded and the
\* loop goes round), or nothing, or raises
ListenRead ==
  /\ lpc.at = "read"
  /\ \E r \in {"data", "eof", "error"} :
       IF r = "data"
         THEN LET m == monitor_loop(telnet, WaitingReaders) IN
              /\ nOps < MaxOps
              /\ nOps' = nOps + 1
              /\ lpc' = m.lpc
              /\ telnet' = [telnet EXCEPT !.connected = m.connected]
         ELSE /\ telnet' = [telnet EXCEPT !.connected = FALSE]
              /\ lpc' = At("ended", 0)
              /\ UNCHANGED nOps
  /\ UNCHANGED <<lock, spc, links, sent>>
  /\ UNCHANGED <<use_telnet, dpc, attempt, cur, res, udpLog, tnLog, calls>>
  /\ UNCHANGED <<lastDispatch, rako_socket>>
  /\ UNCHANGED codecVars
  /\ UNCHANGED auxVars
  /\ UNCHANGED bridgeVars

\* ------------------------------------------------------------------------
\* Specifications
\* ------------------------------------------------------------------------
Supervisor ==
  \/ Connect
  \/ SetupUdpSocket
  \/ StartActivities
  \/ FirstCompleted
  \/ Cleanup
  \/ GraceWaitDone
  \/ GraceWaitTimeout
  \/ Shutdown
  \/ RunBridgeFinally

Next ==
  \/ Supervisor
  \/ \E t \in Tasks : DeliverCancel(t)
  \/ WatchReceive
  \/ WatchSocketError
  \/ WatchWake
  \/ PublishStatus
  \/ PublishWake
  \/ Heartbeat
  \/ ProcessSubscribe
  \/ OnMessage
  \/ ProcessMessage

\* the engine: one run of run_bridge
Spec == Init /\ [][Next]_vars

\* The event loop runs every callback that is ready: the supervisor goes on
\* when its await can return, and a cancelled task is resumed.
Fairness ==
  /\ WF_vars(Supervisor)
  /\ \A t \in Tasks : WF_vars(DeliverCancel(t))

LiveSpec == Spec /\ Fairness

NextLoop ==
  \/ WatchReceive
  \/ WatchSocketError
  \/ WatchWake
  \/ PublishStatus
  \/ PublishWake
  \/ Heartbeat
  \/ ProcessSubscribe
  \/ OnMessage
  \/ ProcessSend
  \/ ProcessRecv

\* the running engine, with the datagram exchange of a dispatch in two steps
SpecLoop == InitLoop /\ [][NextLoop]_vars

NextDispatch ==
  \/ DCall
  \/ DAttempt
  \/ DStream
  \/ DExchange
  \/ DBackoff

\* the dispatcher: a session of post_command calls on one RakoBridge
SpecDispatch == Init /\ [][NextDispatch]_vars

NextCodec ==
  \/ Encode
  \/ Decode
  \/ ProcessUdp

\* the codec: one command encoded and decoded back, or one frame decoded
SpecCodec == InitCodec /\ [][NextCodec]_vars

NextTranslate ==
  \/ Translate
  \/ Dispatch

\* the translation: one bus message translated and, if it gives a command,
\* dispatched
SpecTranslate == InitTranslate /\ [][NextTranslate]_vars

NextConstruct ==
  \/ ConstructStart
  \/ Probe
  \/ ConstructFields

\* the construction of one RakoBridge, with discovery when no host is given
SpecConstruct == InitConstruct /\ [][NextConstruct]_vars

NextStream ==
  \/ \E s \in Senders : SendCall(s)
  \/ \E s \in Senders : SendWake(s)
  \/ \E s \in Senders : SendConnect(s)
  \/ \E s \in Senders : SendDrain(s)
  \/ \E s \in Senders : SendRead(s)
  \/ ListenStart
  \/ ListenConnect
  \/ ListenRead

\* the stream interface: concurrent send_command calls and a listener
SpecStream == InitStream /\ [][NextStream]_vars

\* ------------------------------------------------------------------------
\* Properties of the supervisor (Spec, LiveSpec)
\* ------------------------------------------------------------------------
Started == \A t \in Tasks : pc[t] # "absent"

\* the position of the first occurrence of e in log, 0 when there is none
First(log, e) ==
  IF \E i \in DOMAIN log : log[i] = e
    THEN CHOOSE i \in DOMAIN log :
           log[i] = e /\ \A j \in 1..(i - 1) : log[j] # e
    ELSE 0

Before(log, a, b) == First(log, a) > 0 /\ First(log, a) < First(log, b)

ShutdownPerformed ==
  /\ \E i \in DOMAIN liveness :
       liveness[i].payload = "offline" /\ liveness[i].by = "shutdown"
  /\ sock = "closed"
  /\ ~telnet.connected
  /\ ~is_connected

C2_OfflineIsLastMarker ==
  runPc = "finished" =>
    \E i \in DOMAIN liveness :
      /\ liveness[i].payload = "offline"
      /\ liveness[i].qos = 1
      /\ liveness[i].retain
      /\ \A j \in (i + 1)..Len(liveness) : liveness[j].payload # "online"

C2_Witness ==
  /\ runPc = "finished"
  /\ Started
  /\ \E i \in DOMAIN liveness :
       liveness[i].payload = "online" /\ liveness[i].ok
  /\ liveness[Len(liveness)].payload = "offline"

\* the publish attempts of the heartbeat activity, in order
HeartbeatLog ==
  LET ByHeartbeat(e) == e.by = "heartbeat" IN SelectSeq(liveness, ByHeartbeat)

\* C3: a failed online publish of the heartbeat is followed by exactly one
\* offline attempt of the heartbeat and by nothing else from it; the
\* heartbeat then ends with the error, and the engine's run ends with it.
C3_HeartbeatFailureIsFatal ==
  /\ [](\A i \in DOMAIN HeartbeatLog :
          (HeartbeatLog[i].payload = "online" /\ ~HeartbeatLog[i].ok) =>
             /\ Len(HeartbeatLog) = i + 1
             /\ HeartbeatLog[i + 1].payload = "offline"
             /\ pc["maintain_availability"] = "failed")
  /\ [](\A i \in DOMAIN HeartbeatLog :
          HeartbeatLog[i].payload = "offline" =>
             i > 1 /\ HeartbeatLog[i - 1].payload = "online"
                   /\ ~HeartbeatLog[i - 1].ok)
  /\ ((pc["maintain_availability"] = "failed")
        ~> (runPc = "finished" /\ runErr))

C3_Witness ==
  /\ runPc = "finished"
  /\ runErr
  /\ pc["maintain_availability"] = "failed"
  /\ Len(HeartbeatLog) = 3
  /\ HeartbeatLog[1].ok
  /\ ~HeartbeatLog[3].ok

\* ------------------------------------------------------------------------
\* Properties of ingest and publication (Spec)
\* ------------------------------------------------------------------------
Decoded(item) ==
  LET m == from_byte_list(item.frame) IN
  /\ m.exc = "none"
  /\ item.topic = create_topic(m)
  /\ item.payload = create_payload(m)

\* C9: every item on the status queue, and every item published, is the
\* topic and payload of a datagram that decoded; receiving a datagram that
\* does not decode changes neither the queue nor what is published, and
\* ingest goes on (it sleeps or receives, it does not end).
C9_OnlyDecodedFramesAreQueued ==
  /\ [](/\ \A i \in DOMAIN udp_queue : Decoded(udp_queue[i])
        /\ \A i \in DOMAIN published : Decoded(published[i]))
  /\ [][(nRecv' = nRecv + 1 /\ lastDecode' # "none") =>
          /\ udp_queue' = udp_queue
          /\ published' = published
          /\ pc'["watch_rako"] \in {"recv", "sleep_empty", "sleep_error"}]_vars

C9_Witness ==
  /\ nRecv = 2
  /\ lastDecode = "KeyError"
  /\ pc["watch_rako"] = "recv"
  /\ Len(published) = 1
  /\ published[1].seq = 1
  /\ udp_queue = << >>

\* C10: status items are published in the order in which their datagrams
\* were received.
C10_PublishedInArrivalOrder ==
  \A i \in DOMAIN published : \A j \in DOMAIN published :
    i < j => published[i].seq < published[j].seq

C10_Witness ==
  /\ Len(published) = 2
  /\ published[1].frame = FrameSetLevel
  /\ published[2].frame = FrameButton

\* ------------------------------------------------------------------------
\* Properties of the dispatcher (SpecDispatch)
\* ------------------------------------------------------------------------
Returned == dpc = "idle" /\ calls > 0

DatagramFailures == {"encode_error", "send_error", "timeout"}
TransportFailures == {"send_error", "timeout"}
StreamFailures == {"no_link", "connect_error", "write_error", "read_error"}

\* C4: a call in which every datagram attempt and every stream attempt
\* failed ends with the error of line 604, after 3 attempts.
C4_AllFailedRaisesExhausted ==
  (/\ Returned
   /\ udpLog # << >> \/ tnLog # << >>
   /\ \A i \in DOMAIN udpLog : udpLog[i] \in DatagramFailures
   /\ \A i \in DOMAIN tnLog : tnLog[i] \in StreamFailures)
  => (res = "TransportExhausted" /\ attempt = command_retries - 1)

\* C5: a call that returns success after its first datagram attempt failed
\* went through a stream attempt and leaves the use-stream flag set.
C5_FallbackLeavesFlagSet ==
  (/\ Returned
   /\ res = "success"
   /\ udpLog # << >>
   /\ udpLog[1] \in DatagramFailures)
  => (use_telnet /\ tnLog # << >>)

\* C6: after a datagram send that failed at the transport level the
\* use-stream flag is set and the stream path is attempted in the same
\* attempt.
C6_TransportFailureFallsBack ==
  (udpLog # << >> /\ udpLog[Len(udpLog)] \in TransportFailures)
  => \/ (dpc \in {"stream", "exchange"} /\ use_telnet)
     \/ Len(tnLog) >= Len(udpLog)

\* C7: a datagram send answered by something other than the acknowledgement
\* ends the call with success after that one send: the use-stream flag is
\* not set, the stream path is not tried, nothing is retried.
C7_UnexpectedReplyIsSuccess ==
  (udpLog # << >> /\ udpLog[Len(udpLog)] = "other") =>
    /\ dpc = "idle"
    /\ res = "success"
    /\ ~use_telnet
    /\ tnLog = << >>
    /\ Len(udpLog) = 1
    /\ attempt = 0

C7_Witness ==
  /\ Returned
  /\ cur = CmdLevel
  /\ udpLog = <<"other">>
  /\ res = "success"
  /\ sent # << >>
  /\ sent[Len(sent)] = [via |-> "udp", data |-> to_udp_command(CmdLevel).frame]

\* the stream attempts of the current call that wrote a line
StreamSends ==
  LET Wrote(e) == e \in {"read_error", "reply_ok", "reply_other", "reply_eof"}
  IN  Len(SelectSeq(tnLog, Wrote))

\* C8: a call ends with success or with the error of line 604, after at
\* most 3 attempts, 3 datagram sends and 3 stream sends.
C8_EndsWithinThreeAttempts ==
  Returned =>
    /\ res \in {"success", "TransportExhausted"}
    /\ attempt < command_retries
    /\ Len(udpLog) <= command_retries
    /\ StreamSends <= command_retries

\* ------------------------------------------------------------------------
\* Properties of publication, command-processing and cancellation
\* (Spec, LiveSpec)
\* ------------------------------------------------------------------------
\* C11: no item is lost between the status queue and the bus: across every
\* step, each item that was on the queue is still on the queue or is among
\* the items published, also when the publish attempt of that step failed.
C11_NoQueuedItemIsLost ==
  [][\A i \in DOMAIN udp_queue :
       \/ \E j \in DOMAIN udp_queue' : udp_queue'[j] = udp_queue[i]
       \/ \E j \in DOMAIN published' : published'[j] = udp_queue[i]]_vars

DispatchFailures == {"no_command", "send_error", "timeout"}

\* C12: handling one bus message removes exactly that message from the
\* inbound queue and leaves the activity at the head of its loop, whether
\* or not the message gave a command and whether or not its send failed;
\* the inbound queue grows only by a message the bus delivers, a message is
\* sent at most once, and the activity ends only by being cancelled.
C12_FailedMessageIsDropped ==
  /\ [][Len(message_queue') < Len(message_queue) =>
          /\ message_queue' = Tail(message_queue)
          /\ pc'["process_mqtt"] = "get_message"
          /\ Len(sent') <= Len(sent) + 1
          /\ lastDispatch' \in DispatchFailures =>
               \A i \in DOMAIN sent' :
                 i > Len(sent) =>
                   /\ lastDispatch' = "timeout"
                   /\ sent'[i].data =
                        to_udp_command(from_mqtt(Head(message_queue))).frame
         ]_vars
  /\ [][Len(message_queue') > Len(message_queue) =>
          /\ nMsgs' = nMsgs + 1
          /\ Len(message_queue') = Len(message_queue) + 1]_vars
  /\ [][pc["process_mqtt"] = "get_message" =>
          pc'["process_mqtt"] \in {"get_message", "cancelled"}]_vars
  /\ [](Len(sent) + Len(message_queue) <= nMsgs)

C12_Witness ==
  /\ lastDispatch = "send_error"
  /\ nMsgs = 3
  /\ sent = << >>
  /\ message_queue = <<MsgStop, MsgRoomOff>>
  /\ pc["process_mqtt"] = "get_message"
  /\ ~cancelReq["process_mqtt"]

\* C14: an activity the supervisor has cancelled takes no further step of
\* its loop: the only change of its position is to "cancelled", and from
\* any point of a run on, a point comes at which every activity cancelled
\* so far has ended.
C14_CancelledActivitiesEnd ==
  /\ [][\A t \in Tasks :
          cancelReq[t] => pc'[t] \in {pc[t], "cancelled"}]_vars
  /\ []<>(\A t \in Tasks : cancelReq[t] => Done(pc[t]))

C14_Witness ==
  /\ runPc = "grace_wait"
  /\ pc["maintain_availability"] = "failed"
  /\ \A t \in Tasks \ {"maintain_availability"} :
       cancelReq[t] /\ pc[t] = "cancelled"
  /\ nRecv > 0

\* C15: when run_bridge has finished, the ingest socket, the dispatcher's
\* datagram socket and the stream link are closed and the bus client is
\* disconnected.
C15_EverythingReleased ==
  runPc = "finished" =>
    /\ sock \in {"none", "closed"}
    /\ rako_socket = "closed"
    /\ ~telnet.connected
    /\ ~is_connected

\* ------------------------------------------------------------------------
\* Properties of the stream link as post_command uses it (SpecDispatch)
\* ------------------------------------------------------------------------
\* C16: no connection exists before a call takes the stream path and one is
\* opened only in the stream path of a call; a link marked connected never
\* holds a connection on which an exchange failed, and no line is written
\* on such a connection.
C16_FailedConnectionIsNotReused ==
  /\ [](calls = 0 => links.opened = 0 /\ ~telnet.exists)
  /\ [][links'.opened > links.opened =>
          /\ dpc \in {"stream", "exchange"}
          /\ use_telnet
          /\ links'.opened = links.opened + 1]_vars
  /\ [](telnet.connected => telnet.conn \notin links.failed)
  /\ [][\A i \in DOMAIN sent' :
          (i > Len(sent) /\ sent'[i].via = "telnet") =>
             /\ sent'[i].conn \notin links.failed
             /\ sent'[i].conn \in 1..links'.opened]_vars

C16_Witness ==
  /\ links.failed = {1}
  /\ links.opened = 2
  /\ sent # << >>
  /\ sent[Len(sent)].via = "telnet"
  /\ sent[Len(sent)].conn = 2
  /\ telnet.connected

\* ------------------------------------------------------------------------
\* Properties of the codec (SpecCodec)
\* ------------------------------------------------------------------------
\* C17: the bytes of an encoded frame after its first one add up to a
\* multiple of 256, for a command of each kind (command type, scene, level).
C17_FrameChecksumIsZero ==
  (rako_command # NoCommand /\ cpc \in {"encoded", "decoded"}) =>
    /\ Len(byte_list) >= 8
    /\ SumSeq(Tail(byte_list)) % 256 = 0

C17_Witness ==
  /\ cpc = "encoded"
  /\ rako_command = RakoCommand(1023, 255, NoneVal, 255, NoneVal, NoneVal)
  /\ byte_list = <<82, 7, 3, 255, 255, 52, 2, 255, 195>>

\* C18: decoding the frame encoded for a level command gives a status
\* message with the command's room, channel and brightness.
C18_LevelCommandRoundTrip ==
  (/\ cpc = "decoded"
   /\ rako_command # NoCommand
   /\ rako_command.brightness # NoneVal)
  => /\ status.exc = "none"
     /\ status.room_id = rako_command.room_id
     /\ status.channel_id = rako_command.channel_id
     /\ status.brightness = rako_command.brightness

\* a status frame with the set-scene opcode and a payload of two bytes or
\* more; its scene number is the second payload byte
IsSetSceneFrame(b) ==
  /\ Len(b) >= 6
  /\ b[1] = 83
  /\ b[6] = 49
  /\ Len(PayloadBytes(b)) >= 2

\* C19: a set-scene status frame decodes to brightness 0, 255, 192, 128, 64
\* for scene 0, 1, 2, 3, 4, and fails with RakoDeserialisationException for
\* any other scene number.
C19_SceneOutsideTableIsMalformed ==
  (cpc = "decoded" /\ rako_command = NoCommand /\ IsSetSceneFrame(byte_list))
  => LET scene == PayloadBytes(byte_list)[2] IN
     IF scene \in 0..4
       THEN /\ status.exc = "none"
            /\ status.scene = scene
            /\ status.brightness = <<0, 255, 192, 128, 64>>[scene + 1]
       ELSE status.exc = "RakoDeserialisationException"

\* a frame from_byte_list is to accept: the status marker, one of the seven
\* handled opcodes, and the payload bytes that opcode reads
IsDecodable(b) ==
  /\ Len(b) >= 6
  /\ b[1] = 83
  /\ b[6] \in {51, 12, 52, 49, 1, 2, 15}
  /\ b[6] \in {12, 52, 49} => Len(PayloadBytes(b)) >= 2

\* C20: from_byte_list ends either with a status message or with
\* RakoDeserialisationException; it gives a status message only for a
\* decodable frame, and RakoDeserialisationException for every other frame.
C20_OnlyMalformedFrameErrors ==
  (cpc = "decoded" /\ rako_command = NoCommand) =>
    /\ status.exc \in {"none", "RakoDeserialisationException"}
    /\ status.exc = "none" => IsDecodable(byte_list)
    /\ ~IsDecodable(byte_list) => status.exc = "RakoDeserialisationException"

\* ------------------------------------------------------------------------
\* Properties of the shared stream interface (SpecStream)
\* ------------------------------------------------------------------------
\* C13: while a send_command is between its write and the end of its read,
\* no other send_command is between its write and its read, and the
\* listener is not reading from the connection that exchange uses.
C13_ExchangeIsNotInterleaved ==
  \A s \in Senders :
    spc[s].at \in {"drain", "read"} =>
      /\ \A o \in Senders \ {s} : spc[o].at \notin {"drain", "read"}
      /\ ~(lpc.at = "read" /\ lpc.conn \in {spc[s].conn, telnet.conn})

\* ------------------------------------------------------------------------
\* Properties of the decoder, case by case (SpecCodec)
\* ------------------------------------------------------------------------
\* the payload of a status frame: the bytes after the opcode that the length
\* byte announces, as far as they are there
FramePayload(b) ==
  LET announced == b[2] + 1
      n == IF announced < Len(b) THEN announced ELSE Len(b)
  IN  IF n >= 7 THEN SubSeq(b, 7, n) ELSE << >>

\* a frame with the status marker that reaches as far as its opcode
HasOpcode(b, ops) == Len(b) >= 6 /\ b[1] = 83 /\ b[6] \in ops

\* the scene a button-press frame carries
ButtonScene(b) ==
  IF FramePayload(b) = << >> THEN 0
  ELSE FramePayload(b)[Len(FramePayload(b))]

BrightnessOfScene(scene) ==
  CASE scene = 0 -> 0
    [] scene = 1 -> 255
    [] scene = 2 -> 192
    [] scene = 3 -> 128
    [] scene = 4 -> 64

\* C21: decoding a frame with opcode 0x33 whose last payload byte (0 for an
\* empty payload) is a scene of the table gives a BUTTON_PRESS event with
\* that scene and the brightness the table has for it.
C21_ButtonPressDecodes ==
  (cpc = "decoded" /\ HasOpcode(byte_list, {51})
     /\ ButtonScene(byte_list) \in 0..4)
    => /\ status.exc = "none"
       /\ status.command = BUTTON_PRESS
       /\ status.scene = ButtonScene(byte_list)
       /\ status.brightness = BrightnessOfScene(ButtonScene(byte_list))

\* a payload ending in 0x03 has been decoded to scene 3, brightness 128
C21_Witness ==
  /\ cpc = "decoded"
  /\ byte_list = <<83, 7, 0, 4, 2, 51, 2, 3>>
  /\ status = StatusMessage(4, 2, BUTTON_PRESS, 3, 128)

\* C22: decoding a frame with the legacy level-set or the set-level opcode
\* gives, with 2 payload bytes or more, an event with room byte 3, channel
\* byte 4, that command type, the second payload byte as brightness and no
\* scene; with fewer payload bytes it raises RakoDeserialisationException.
C22_LevelFrameDecodes ==
  (cpc = "decoded" /\ HasOpcode(byte_list, {LEVEL_SET_LEGACY, SET_LEVEL}))
    => IF Len(FramePayload(byte_list)) >= 2
         THEN status = StatusMessage(byte_list[4], byte_list[5],
                                     byte_list[6], NoneVal,
                                     FramePayload(byte_list)[2])
         ELSE status.exc = "RakoDeserialisationException"

\* the set-level frame of the specification has been decoded
C22_Witness ==
  /\ cpc = "decoded"
  /\ byte_list = <<83, 11, 0, 4, 2, 52, 2, 255>>
  /\ status = StatusMessage(4, 2, SET_LEVEL, NoneVal, 255)

\* C26: every status message the decoder produces has a command type of the
\* enumeration, a room id of 10 bits, a channel id of 8 bits, a brightness
\* (if any) in 0..255 and a scene (if any) in 0..4; FADE_UP comes with
\* brightness 255, FADE_DOWN with brightness 0, STOP with neither scene nor
\* brightness.
C26_StatusMessageIsWellFormed ==
  (cpc = "decoded" /\ status.exc = "none")
    => /\ status.command \in RakoCommandType
       /\ status.room_id \in 0..1023
       /\ status.channel_id \in 0..255
       /\ status.brightness # NoneVal => status.brightness \in 0..255
       /\ status.scene # NoneVal => status.scene \in 0..4
       /\ status.command = FADE_UP => status.brightness = 255
       /\ status.command = FADE_DOWN => status.brightness = 0
       /\ status.command = STOP
            => status.scene = NoneVal /\ status.brightness = NoneVal

\* a STOP frame from room 255, channel 255 has been decoded
C26_Witness ==
  /\ cpc = "decoded"
  /\ byte_list = <<83, 5, 0, 255, 255, 15>>
  /\ status = StatusMessage(255, 255, STOP, NoneVal, NoneVal)

\* ------------------------------------------------------------------------
\* Properties of the translation (SpecTranslate)
\* ------------------------------------------------------------------------
Translated == cpc \in {"no_command", "translated", "dispatched"}

CoverCommandOf(word) ==
  CASE word = "OPEN" -> FADE_UP
    [] word = "CLOSE" -> FADE_DOWN
    [] word = "STOP" -> STOP

\* C23: a message on a channel command topic whose payload is OPEN, CLOSE or
\* STOP is translated to the command with that room and channel and the
\* command type FADE_UP, FADE_DOWN or STOP, and that command is dispatched.
C23_CoverWordTranslates ==
  (Translated /\ mqtt_message.kind = "command"
     /\ mqtt_message.payload.form \in {"text", "string"}
     /\ mqtt_message.payload.text \in {"OPEN", "CLOSE", "STOP"})
    => /\ rako_command =
            RakoCommand(mqtt_message.room, mqtt_message.channel, NoneVal,
                        NoneVal, CoverCommandOf(mqtt_message.payload.text),
                        NoneVal)
       /\ cpc \in {"translated", "dispatched"}

\* a payload the schema accepts
ValidObject(p) ==
  /\ p.form = "object"
  /\ p.state \in {"", "ON", "OFF"}
  /\ p.brightness = NoneVal \/ p.brightness \in 0..255
  /\ p.transition = NoneVal \/ p.transition >= 0
  /\ p.command \in {"", "OPEN", "CLOSE", "STOP"}

\* C24: a message on a channel set topic with a valid JSON payload that has
\* a state is translated to the command with that room and channel, no
\* scene, no command type and the brightness: the payload's when the state
\* is ON and a brightness is given, 255 when the state is ON and none is
\* given, 0 when the state is OFF.
C24_SetPayloadTranslates ==
  (Translated /\ mqtt_message.kind = "channel"
     /\ ValidObject(mqtt_message.payload)
     /\ mqtt_message.payload.state \in {"ON", "OFF"})
    => /\ rako_command.room_id = mqtt_message.room
       /\ rako_command.channel_id = mqtt_message.channel
       /\ rako_command.scene = NoneVal
       /\ rako_command.command = NoneVal
       /\ rako_command.brightness =
            IF mqtt_message.payload.state = "OFF" THEN 0
            ELSE IF mqtt_message.payload.brightness # NoneVal
              THEN mqtt_message.payload.brightness
            ELSE 255

\* {"state": "ON"} on rako/room/4/channel/2/set became brightness 255
C24_Witness ==
  /\ cpc = "dispatched"
  /\ mqtt_message =
       BusMessage("channel", 4, 2,
                  BusPayload("object", "", "ON", NoneVal, NoneVal, ""))
  /\ rako_command = RakoCommand(4, 2, NoneVal, 255, NoneVal, NoneVal)
  /\ byte_list = <<82, 7, 0, 4, 2, 52, 2, 255, 190>>

\* ------------------------------------------------------------------------
\* Properties of the encoder (SpecCodec)
\* ------------------------------------------------------------------------
\* the fade-rate byte: the value of the command's fade rate, 2 (MEDIUM)
\* when it has none
FadeRateByte(c) == IF c.fade_rate = NoneVal THEN 2 ELSE c.fade_rate

FrameOpcode(c) ==
  IF c.command # NoneVal THEN c.command
  ELSE IF c.scene # NoneVal THEN SET_SCENE
  ELSE SET_LEVEL

FramePayloadOf(c) ==
  IF c.command # NoneVal THEN <<0>>
  ELSE IF c.scene # NoneVal THEN <<FadeRateByte(c), c.scene>>
  ELSE <<FadeRateByte(c), c.brightness>>

\* C25: the frame of a command is 'R', 5 + the length of the payload, the
\* high and the low byte of the room id, the channel, the opcode, the
\* payload and a checksum byte, with the opcode and the payload chosen by
\* precedence: command type, then scene, then level.
C25_FrameLayout ==
  (cpc = "encoded")
    => /\ Len(byte_list) = 7 + Len(FramePayloadOf(rako_command))
       /\ SubSeq(byte_list, 1, Len(byte_list) - 1) =
            <<82, 5 + Len(FramePayloadOf(rako_command)),
              rako_command.room_id \div 256, rako_command.room_id % 256,
              rako_command.channel_id, FrameOpcode(rako_command)>>
            \o FramePayloadOf(rako_command)

\* ------------------------------------------------------------------------
\* Properties of the construction (SpecConstruct)
\* ------------------------------------------------------------------------
\* C27: discovery broadcasts the one-byte probe at most 3 times; a reply is
\* the last thing a probe gets (no probe follows it) and its source address
\* is the host returned; when the third probe times out too, no host is
\* returned, and once discovery has ended no probe is sent any more.
C27_DiscoveryProbesAtMostThrice ==
  /\ [](Len(probes) <= 3)
  /\ [](\A i \in 1..Len(probes) : probes[i].data = <<68>>)
  /\ [](\A i \in 1..(Len(probes) - 1) : probes[i].got = "timeout")
  /\ []((kpc \in {"fields", "constructed"} /\ probes # << >>)
          => IF probes[Len(probes)].got \in Responders
               THEN host = probes[Len(probes)].got
               ELSE /\ host = NoHost
                    /\ Len(probes) = 3
                    /\ probes[3].got = "timeout")
  /\ [][(kpc \in {"fields", "constructed", "raised"}) => probes' = probes]_vars

\* the third probe was answered, and the bridge constructed with that host
C27_Witness ==
  /\ kpc = "constructed"
  /\ Len(probes) = 3
  /\ probes[3].got = "192.168.1.21"
  /\ host = "192.168.1.21"

\* two strings are the same but for the case of their letters
SameIgnoringCase(a, b) ==
  /\ Len(a) = Len(b)
  /\ \A i \in 1..Len(a) :
       \/ a[i] = b[i]
       \/ a[i] \in 65..90 /\ b[i] = a[i] + 32
       \/ a[i] \in 97..122 /\ b[i] = a[i] - 32

\* C28: from_string gives the rate whose name is the argument but for the
\* case of the letters, MEDIUM when there is no such rate, and it always
\* returns.
C28_FadeRateByName ==
  /\ kpc = "constructed"
       => /\ \A n \in DOMAIN RakoFadeRateMembers :
               SameIgnoringCase(fade_name, n)
                 => default_fade_rate = RakoFadeRateMembers[n]
          /\ (\A n \in DOMAIN RakoFadeRateMembers :
                 ~SameIgnoringCase(fade_name, n))
               => default_fade_rate = MEDIUM
  /\ kpc = "fields" => from_string(fade_name) \in 0..5

\* "Fast" gave FAST
C28_Witness ==
  /\ kpc = "constructed"
  /\ fade_name = <<70, 97, 115, 116>>
  /\ default_fade_rate = FAST

\* ------------------------------------------------------------------------
\* The use-stream flag within a session (SpecDispatch)
\* ------------------------------------------------------------------------
\* C29: the use-stream flag, once set, stays set: a failure on the stream
\* path drops the stream handle and leaves the flag set, and an attempt made
\* with the flag set sends no datagram.
C29_StreamFlagStaysSet ==
  /\ [][use_telnet => use_telnet']_vars
  /\ [][(dpc = "exchange" /\ dpc' = "backoff")
          => (~telnet'.exists /\ use_telnet')]_vars
  /\ [][use_telnet => udpLog' \in {udpLog, << >>}]_vars

\* ------------------------------------------------------------------------
\* The ingest socket during termination (Spec)
\* ------------------------------------------------------------------------
\* C30: the ingest socket is closed only after the activities have been
\* cancelled and awaited: while it is closed, the ingest activity is not
\* live without a cancellation, and the supervisor's wait for the cancelled
\* activities came before the close.
C30_SocketClosedAfterActivities ==
  sock = "closed"
    => /\ \/ pc["watch_rako"] = "absent"
          \/ Done(pc["watch_rako"])
          \/ cancelReq["watch_rako"]
       /\ Started => Before(runLog, "waited", "socket_closed")

\* ------------------------------------------------------------------------
\* What a successful call has handed over (SpecDispatch)
\* ------------------------------------------------------------------------
\* the attempts of the current call in which a frame or a line reached a
\* transport
HandedDatagrams == {i \in DOMAIN udpLog : udpLog[i] \in {"ack", "other", "timeout"}}
HandedLines ==
  {i \in DOMAIN tnLog :
     tnLog[i] \in {"reply_ok", "reply_other", "reply_eof", "read_error"}}

\* C34: a call of post_command that returned success has handed at least
\* one frame or line carrying the command to a transport; in particular
\* no call returns success from a stream attempt that wrote nothing.
C34_SuccessMeansHandedOver ==
  (Returned /\ res = "success") =>
    /\ HandedDatagrams # {} \/ HandedLines # {}
    /\ \A i \in DOMAIN tnLog : tnLog[i] # "nothing_written"

\* C35: a stream exchange whose reply read returned end-of-stream is not
\* taken as delivered: the link is marked not connected and the call does
\* not end with success on it.
C35_EndOfStreamReplyIsFailure ==
  (tnLog # << >> /\ tnLog[Len(tnLog)] = "reply_eof") =>
    /\ ~telnet.connected
    /\ res # "success"

\* ------------------------------------------------------------------------
\* The brightness published for a status event (SpecCodec)
\* ------------------------------------------------------------------------
\* C38: when a frame decodes to a status event that carries a brightness,
\* the payload process_udp_bytes returns for it has that brightness (for a
\* set-scene event, the scene-table value of its scene).
C38_PublishedBrightnessIsEventBrightness ==
  (/\ cpc = "processed"
   /\ status.exc = "none"
   /\ status.brightness # NoneVal)
  => /\ processed.some
     /\ processed.payload.brightness = status.brightness
     /\ status.command = SET_SCENE =>
          processed.payload.brightness = SceneTable[status.scene]

\* ------------------------------------------------------------------------
\* Set messages: transition and empty payloads (SpecTranslate)
\* ------------------------------------------------------------------------
\* the fade rate of a transition of t seconds
FadeRateOfTransition(t) ==
  IF t = 0 THEN INSTANT
  ELSE IF t <= 2 THEN FAST
  ELSE IF t <= 4 THEN MEDIUM
  ELSE IF t <= 8 THEN SLOW
  ELSE IF t <= 16 THEN VERY_SLOW
  ELSE EXTRA_SLOW

\* C36: the command translated from a set message whose payload has a
\* transition t carries the fade rate of t, and the frame dispatched for it
\* has that rate as its fade-rate byte (the first payload byte).
C36_TransitionSetsFadeRate ==
  (/\ cpc \in {"translated", "dispatched"}
   /\ mqtt_message.kind \in {"room", "channel"}
   /\ mqtt_message.payload.transition # NoneVal)
  => /\ rako_command.fade_rate =
          FadeRateOfTransition(mqtt_message.payload.transition)
     /\ cpc = "dispatched" =>
          byte_list[7] = FadeRateOfTransition(mqtt_message.payload.transition)

\* C37: a channel set message whose JSON object has neither a state nor a
\* brightness gives no command, and nothing is sent for it.
C37_EmptySetPayloadGivesNoCommand ==
  (/\ cpc # "message"
   /\ mqtt_message.kind = "channel"
   /\ mqtt_message.payload.form = "object"
   /\ mqtt_message.payload.state = ""
   /\ mqtt_message.payload.brightness = NoneVal)
  => /\ cpc = "no_command"
     /\ rako_command = NoCommand
     /\ sent = << >>

\* ------------------------------------------------------------------------
\* Which activities can end on their own (Spec)
\* ------------------------------------------------------------------------
\* C32: ingest and publication never end on their own: they are never
\* failed or returned, and are cancelled only on a cancellation request.
\* No activity returns.  Command-processing fails only at its subscriptions
\* and the heartbeat only with a failed online publish, and when the
\* supervisor's wait for the first completion is over, one of these two has
\* failed.
C32_OnlySubscribeOrHeartbeatFails ==
  /\ [](\A t \in {"watch_rako", "publish_status"} :
          /\ pc[t] \notin {"failed", "returned"}
          /\ pc[t] = "cancelled" => cancelReq[t])
  /\ [](\A t \in Tasks : pc[t] # "returned")
  /\ [][(pc'["process_mqtt"] = "failed" /\ pc["process_mqtt"] # "failed")
          => pc["process_mqtt"] = "start"]_vars
  /\ [](pc["maintain_availability"] = "failed" =>
          \E i \in DOMAIN HeartbeatLog :
            HeartbeatLog[i].payload = "online" /\ ~HeartbeatLog[i].ok)
  /\ []((Started /\ runPc # "wait_first") =>
          \/ pc["process_mqtt"] = "failed"
          \/ pc["maintain_availability"] = "failed")

\* ingest caught a KeyError and went on; ingest and publication were still
\* running when the heartbeat failed, and were cancelled
C32_Witness ==
  /\ lastDecode = "KeyError"
  /\ pc["watch_rako"] = "cancelled"
  /\ pc["publish_status"] = "cancelled"
  /\ pc["maintain_availability"] = "failed"

\* ------------------------------------------------------------------------
\* Properties of the running engine (SpecLoop)
\* ------------------------------------------------------------------------
AwaitingReply == pc["process_mqtt"] = "socket_recv"

\* C31: while command-processing waits for the controller's reply to a
\* datagram it has sent, the steps of ingest, publication and heartbeat
\* that are ready can be taken: a datagram that has arrived can be received,
\* a sleep that is over left, a queued status published, the next
\* heartbeat sent.
C31_ReplyWaitIsSuspensionPoint ==
  AwaitingReply =>
    /\ (pc["watch_rako"] = "recv" /\ MoreEvents) => ENABLED WatchReceive
    /\ pc["watch_rako"] \in {"sleep_empty", "sleep_error"} => ENABLED WatchWake
    /\ (pc["publish_status"] = "get" /\ udp_queue # << >>)
         => ENABLED PublishStatus
    /\ pc["publish_status"] = "sleep_error" => ENABLED PublishWake
    /\ (pc["maintain_availability"] \in {"start", "sleep60"} /\ MoreEvents)
         => ENABLED Heartbeat

\* the frame the datagram path sends for a bus message (none when the
\* message gives no command)
FramesOf(msg) == PostDatagram(from_mqtt(msg), "ack").frames

\* C33: commands are dispatched one at a time in the order the messages
\* were queued: a message is taken only when no dispatch is in progress, it
\* is the oldest one queued, and a frame handed to the transport is the
\* frame of the message taken in that step.
C33_DispatchOneAtATimeInOrder ==
  /\ [][Len(message_queue') < Len(message_queue) =>
          /\ pc["process_mqtt"] = "get_message"
          /\ loop_thread = "free"
          /\ message_queue' = Tail(message_queue)
          /\ mqtt_message' = Head(message_queue)]_vars
  /\ [][sent' # sent =>
          /\ Len(message_queue') < Len(message_queue)
          /\ sent' = sent \o FramesOf(Head(message_queue))
          /\ pc'["process_mqtt"] = "socket_recv"]_vars
  /\ [][(AwaitingReply /\ pc'["process_mqtt"] # "socket_recv") =>
          /\ sent' = sent
          /\ Len(message_queue') >= Len(message_queue)]_vars

\* two different messages were queued together and dispatched one after the
\* other; the second dispatch is waiting for its reply
C33_Witness ==
  /\ Len(sent) = 2
  /\ sent[1] # sent[2]
  /\ AwaitingReply
  /\ nMsgs = 3
  /\ Len(message_queue) = 1

====
